---- MODULE Spec2Model ----
(***************************************************************************)
(* Software IO TLB (kernel/dma/swiotlb.c, the variant with a free-slot     *)
(* bitmap, per-area free lists and the opt-in lockless mode).              *)
(*                                                                         *)
(* The pool, its areas and the slot table are the record mem; every        *)
(* execution context is a task t that runs on the CPU cpu[t] and executes  *)
(* the allocator's functions one critical-section step at a time.          *)
(*                                                                         *)
(* The constants of include/linux/swiotlb.h and asm/page.h keep their      *)
(* names and their power-of-two shape but are scaled down so that the      *)
(* pool is a handful of slots:                                             *)
(*   IO_TLB_SHIFT 11 -> 2, IO_TLB_SEGSIZE 128 -> 4, PAGE_SHIFT 12 -> 3,    *)
(*   IO_TLB_MIN_SLABS 512 -> 2, BITS_PER_LONG 64 -> 8.                     *)
(***************************************************************************)
EXTENDS Integers, Sequences, FiniteSets, TLC

IO_TLB_SHIFT == 2
IO_TLB_SIZE == 2 ^ IO_TLB_SHIFT
IO_TLB_SEGSIZE == 4
PAGE_SHIFT == 3
PAGE_SIZE == 2 ^ PAGE_SHIFT
BITS_PER_LONG == 8
IO_TLB_MIN_SLABS == 2
SLABS_PER_PAGE == 2 ^ (PAGE_SHIFT - IO_TLB_SHIFT)

\* ~0UL, and with it ~(phys_addr_t)0 and DMA_MAPPING_ERROR
ULONG_MAX == 2 ^ BITS_PER_LONG - 1
INVALID_PHYS_ADDR == ULONG_MAX
DMA_MAPPING_ERROR == ULONG_MAX

\* enum dma_data_direction
DMA_BIDIRECTIONAL == "DMA_BIDIRECTIONAL"
DMA_TO_DEVICE == "DMA_TO_DEVICE"
DMA_FROM_DEVICE == "DMA_FROM_DEVICE"

(***************************************************************************)
(* Bounds of the model.                                                    *)
(***************************************************************************)
\* number of tasks (execution contexts) is NTasks, number of CPUs NCpus
NTasks == 2
NCpus == 2
\* at most MaxLive allocations are outstanding at a time
MaxLive == 2

Tasks == 1..NTasks
Cpus == 0..(NCpus - 1)

(***************************************************************************)
(* Integer helpers of the kernel the allocator uses.                       *)
(***************************************************************************)
RECURSIVE BitAnd(_, _)
BitAnd(a, b) ==
    IF a = 0 \/ b = 0 THEN 0
    ELSE (a % 2) * (b % 2) + 2 * BitAnd(a \div 2, b \div 2)

\* ~x on an unsigned long
BitNot(x) == ULONG_MAX - x

\* unsigned long arithmetic
ULong(x) == x % (2 ^ BITS_PER_LONG)

Max(a, b) == IF a >= b THEN a ELSE b
Min(a, b) == IF a <= b THEN a ELSE b

DIV_ROUND_UP(n, d) == (n + d - 1) \div d
ALIGN(x, a) == ((x + a - 1) \div a) * a
roundup(x, y) == ((x + y - 1) \div y) * y

is_power_of_2(n) == n # 0 /\ BitAnd(n, n - 1) = 0

RECURSIVE roundup_pow_of_two(_)
roundup_pow_of_two(n) ==
    IF n <= 1 THEN 1 ELSE 2 * roundup_pow_of_two((n + 1) \div 2)

\* smallest order with (PAGE_SIZE << order) >= size
RECURSIVE get_order_from(_, _)
get_order_from(size, order) ==
    IF PAGE_SIZE * (2 ^ order) >= size THEN order
    ELSE get_order_from(size, order + 1)

get_order(size) == get_order_from(size, 0)

nr_slots(val) == DIV_ROUND_UP(val, IO_TLB_SIZE)

\* a search that takes every slot for the first of its segment
io_tlb_offset_always_zero(val) == 0

io_tlb_offset(val) == BitAnd(val, IO_TLB_SEGSIZE - 1)

slot_addr(start, idx) == start + idx * IO_TLB_SIZE

get_max_slots(boundary_mask) ==
    IF boundary_mask = ULONG_MAX
    THEN 2 ^ (BITS_PER_LONG - IO_TLB_SHIFT)
    ELSE nr_slots(boundary_mask + 1)

\* include/linux/iommu-helper.h
iommu_is_span_boundary(index, nr, shift, boundary_size) ==
    BitAnd(shift + index, boundary_size - 1) + nr > boundary_size

\* list_head as the sequence of the slot indexes on the list, head first
list_add(node, list) == <<node>> \o list
list_add_tail(node, list) == Append(list, node)
list_del(node, list) == SelectSeq(list, LAMBDA x : x # node)
OnList(node, list) == \E k \in 1..Len(list) : list[k] = node

(***************************************************************************)
(* State.                                                                  *)
(***************************************************************************)
VARIABLES
    mem,                    \* struct io_tlb_mem with its slots, bitmap and areas
    dev,                    \* the device's DMA constraints
    swiotlb_lockless_mode,  \* the global opt-in flag
    max_low_pfn,            \* page frames at or above it are highmem
    cpu,                    \* cpu[t]: the CPU task t is running on
    pc,                     \* pc[t]: where task t is in the allocator
    loc,                    \* loc[t]: the local variables of task t's call
    live,                   \* the allocations handed out and not yet given back
    orig_buf,               \* the bytes of the callers' original buffers
    tlb_buf                 \* the bytes of the pool, mem->vaddr

vars == <<mem, dev, swiotlb_lockless_mode, max_low_pfn, cpu, pc, loc, live,
          orig_buf, tlb_buf>>
config == <<dev, swiotlb_lockless_mode, max_low_pfn>>
bufs == <<orig_buf, tlb_buf>>

dma_get_min_align_mask(d) == d.min_align_mask
dma_get_seg_boundary(d) == d.seg_boundary

\* a mapping that starts at the slot's first byte whatever the mask
swiotlb_align_offset_none(d, addr) == 0

swiotlb_align_offset(d, addr) ==
    BitAnd(BitAnd(addr, dma_get_min_align_mask(d)), IO_TLB_SIZE - 1)

(***************************************************************************)
(* Pool construction.                                                      *)
(***************************************************************************)
\* the area a slot is put on at initialisation, i / mem->area_nslabs
InitArea(i, area_nslabs) == i \div area_nslabs

RECURSIVE InitFreeSlots(_, _, _, _)
InitFreeSlots(i, nslabs, area_nslabs, a) ==
    IF i >= nslabs THEN <<>>
    ELSE IF InitArea(i, area_nslabs) = a
         THEN <<i>> \o InitFreeSlots(i + 1, nslabs, area_nslabs, a)
         ELSE InitFreeSlots(i + 1, nslabs, area_nslabs, a)

swiotlb_init_io_tlb_mem(start, nslabs, for_alloc, nareas) ==
    LET area_nslabs == nslabs \div nareas IN
    [ nslabs      |-> nslabs,
      start       |-> start,
      end         |-> start + nslabs * IO_TLB_SIZE,
      nareas      |-> nareas,
      area_nslabs |-> area_nslabs,
      for_alloc   |-> for_alloc,
      bitmap      |-> [i \in 0..(nslabs - 1) |-> TRUE],
      slots       |-> [i \in 0..(nslabs - 1) |->
                          [orig_addr |-> INVALID_PHYS_ADDR, alloc_size |-> 0]],
      areas       |-> [a \in 0..(nareas - 1) |->
                          [ used |-> 0,
                            free_slots |->
                                InitFreeSlots(0, nslabs, area_nslabs, a),
                            free_slots_from_other_cpu |-> <<>>,
                            lock |-> 0 ]] ]

\* what the build makes of i / mem->area_nslabs when area_nslabs is 0, a
\* division the C standard leaves undefined: a divide trap (x86), or the
\* quotient 0 (the arm64 udiv)
DivideByZero == {"trap", "zero"}

\* the pool swiotlb_init_io_tlb_mem leaves when nslabs < nareas, so that
\* mem->area_nslabs is 0.  On a trap the loop over the units stops in its
\* first round, after unit 0's bit and metadata were set and before any unit
\* was listed; the other units keep the zeroes of their allocation.  With
\* the quotient 0 every unit is put on area 0.
swiotlb_init_io_tlb_mem_div0(start, nslabs, for_alloc, nareas, outcome) ==
    [ nslabs      |-> nslabs,
      start       |-> start,
      end         |-> start + nslabs * IO_TLB_SIZE,
      nareas      |-> nareas,
      area_nslabs |-> 0,
      for_alloc   |-> for_alloc,
      bitmap      |-> [i \in 0..(nslabs - 1) |-> outcome = "zero" \/ i = 0],
      slots       |-> [i \in 0..(nslabs - 1) |->
                          IF outcome = "zero" \/ i = 0
                          THEN [orig_addr |-> INVALID_PHYS_ADDR,
                                alloc_size |-> 0]
                          ELSE [orig_addr |-> 0, alloc_size |-> 0]],
      areas       |-> [a \in 0..(nareas - 1) |->
                          [ used |-> 0,
                            free_slots |->
                                IF outcome = "zero" /\ a = 0
                                THEN [k \in 1..nslabs |-> k - 1]
                                ELSE <<>>,
                            free_slots_from_other_cpu |-> <<>>,
                            lock |-> 0 ]] ]

swiotlb_adjust_nareas(nareas) ==
    IF nareas = 0 THEN 1
    ELSE IF ~is_power_of_2(nareas) THEN roundup_pow_of_two(nareas)
    ELSE nareas

\* default_nareas when swiotlb_init_late runs: the command line's value,
\* or swiotlb_adjust_nareas(num_possible_cpus()) when none was given
DefaultNareas(cmdline_nareas) ==
    IF cmdline_nareas # 0 THEN swiotlb_adjust_nareas(cmdline_nareas)
    ELSE swiotlb_adjust_nareas(NCpus)

\* nslabs of swiotlb_init_late when the first __get_free_pages succeeds
LateNslabs(size) ==
    SLABS_PER_PAGE *
      2 ^ get_order(ALIGN(size \div IO_TLB_SIZE, IO_TLB_SEGSIZE) * IO_TLB_SIZE)

swiotlb_init_late(start, size, cmdline_nareas) ==
    swiotlb_init_io_tlb_mem(start, LateNslabs(size), FALSE,
                            DefaultNareas(cmdline_nareas))

\* default_nslabs after round_up_default_nslabs
round_up_default_nslabs(default_nslabs, default_nareas) ==
    IF default_nareas = 0 THEN default_nslabs
    ELSE IF default_nslabs < IO_TLB_SEGSIZE * default_nareas
         THEN roundup_pow_of_two(IO_TLB_SEGSIZE * default_nareas)
    ELSE IF is_power_of_2(default_nslabs) THEN default_nslabs
    ELSE roundup_pow_of_two(default_nslabs)

\* default_nslabs when swiotlb_init_remap allocates the pool: the command
\* line's slab count, aligned by setup_io_tlb_npages and rounded by
\* swiotlb_adjust_nareas
DefaultNslabs(cmdline_nslabs, cmdline_nareas) ==
    round_up_default_nslabs(ALIGN(cmdline_nslabs, IO_TLB_SEGSIZE),
                            DefaultNareas(cmdline_nareas))

\* the pool swiotlb_init_remap brings up when its first
\* swiotlb_memblock_alloc succeeds
swiotlb_init_remap(start, cmdline_nslabs, cmdline_nareas) ==
    swiotlb_init_io_tlb_mem(start,
                            DefaultNslabs(cmdline_nslabs, cmdline_nareas),
                            FALSE, DefaultNareas(cmdline_nareas))

\* swiotlb_lockless_mode after swiotlb_init_remap's test of mem->nareas,
\* which reads the pool m before swiotlb_init_io_tlb_mem has filled it
swiotlb_init_remap_lockless(m, ncpus, lockless) ==
    IF m.nareas # ncpus THEN FALSE ELSE lockless

\* struct io_tlb_mem io_tlb_default_mem as the loader leaves it, all zero:
\* the pool when swiotlb_init_late has returned -ENOMEM
io_tlb_default_mem ==
    [ nslabs      |-> 0,
      start       |-> 0,
      end         |-> 0,
      nareas      |-> 0,
      area_nslabs |-> 0,
      for_alloc   |-> FALSE,
      bitmap      |-> [i \in {} |-> TRUE],
      slots       |-> [i \in {} |->
                          [orig_addr |-> INVALID_PHYS_ADDR, alloc_size |-> 0]],
      areas       |-> [a \in {} |->
                          [ used |-> 0, free_slots |-> <<>>,
                            free_slots_from_other_cpu |-> <<>>,
                            lock |-> 0 ]] ]

rmem_swiotlb_device_init(base, size) ==
    swiotlb_init_io_tlb_mem(base, size \div IO_TLB_SIZE, TRUE, 1)

(***************************************************************************)
(* swiotlb_do_find_slots: the search over one area's free list and the     *)
(* claim of the run found.                                                 *)
(***************************************************************************)
\* a bit past the last slot reads as 0 (the bitmap is allocated zeroed)
test_bit(m, i) == i \in DOMAIN m.bitmap /\ m.bitmap[i]

RECURSIVE find_next_zero_bit(_, _, _)
find_next_zero_bit(m, size, offset) ==
    IF offset >= size THEN size
    ELSE IF ~test_bit(m, offset) THEN offset
    ELSE find_next_zero_bit(m, size, offset + 1)

\* max_slots after "slots shouldn't cross one segment"
MaxSlots(d) == Max(get_max_slots(dma_get_seg_boundary(d)), IO_TLB_SEGSIZE)

\* a loop body without the test of the caller's alignment
SlotFits_no_alloc_align(m, d, slot_index, orig_addr, alloc_size, alloc_align_mask) ==
    LET boundary_mask == dma_get_seg_boundary(d)
        tbl_dma_addr == BitAnd(m.start, boundary_mask)
        slot_dma_addr == slot_addr(tbl_dma_addr, slot_index)
        iotlb_align_mask ==
            BitAnd(dma_get_min_align_mask(d), BitNot(IO_TLB_SIZE - 1))
        nslots == nr_slots(alloc_size)
    IN  /\ ~(orig_addr # 0 /\
              BitAnd(slot_dma_addr, iotlb_align_mask) #
                  BitAnd(orig_addr, iotlb_align_mask))
        /\ ~(alloc_size >= PAGE_SIZE /\
              BitAnd(slot_dma_addr, PAGE_SIZE - 1) # 0)
        /\ ~(io_tlb_offset(slot_index) + nslots > IO_TLB_SEGSIZE)
        /\ ~iommu_is_span_boundary(slot_index, nslots,
                                   nr_slots(tbl_dma_addr), MaxSlots(d))
        /\ find_next_zero_bit(m, slot_index + nslots, slot_index) =
               slot_index + nslots

\* the body of the list_for_each_entry_safe loop: TRUE when it reaches found
SlotFits(m, d, slot_index, orig_addr, alloc_size, alloc_align_mask) ==
    LET boundary_mask == dma_get_seg_boundary(d)
        tbl_dma_addr == BitAnd(m.start, boundary_mask)
        slot_dma_addr == slot_addr(tbl_dma_addr, slot_index)
        iotlb_align_mask ==
            BitAnd(dma_get_min_align_mask(d), BitNot(IO_TLB_SIZE - 1))
        nslots == nr_slots(alloc_size)
    IN  /\ ~(orig_addr # 0 /\
              BitAnd(slot_dma_addr, iotlb_align_mask) #
                  BitAnd(orig_addr, iotlb_align_mask))
        /\ ~(alloc_align_mask # 0 /\
              BitAnd(slot_dma_addr, alloc_align_mask - 1) # 0)
        /\ ~(alloc_size >= PAGE_SIZE /\
              BitAnd(slot_dma_addr, PAGE_SIZE - 1) # 0)
        /\ ~(io_tlb_offset(slot_index) + nslots > IO_TLB_SEGSIZE)
        /\ ~iommu_is_span_boundary(slot_index, nslots,
                                   nr_slots(tbl_dma_addr), MaxSlots(d))
        /\ find_next_zero_bit(m, slot_index + nslots, slot_index) =
               slot_index + nslots

\* a walk that keeps going after a fit and returns the last one
RECURSIVE WalkFreeSlots_last_fit(_, _, _, _, _, _)
WalkFreeSlots_last_fit(list, m, d, orig_addr, alloc_size, alloc_align_mask) ==
    IF list = <<>> THEN -1
    ELSE LET later == WalkFreeSlots_last_fit(Tail(list), m, d, orig_addr,
                                             alloc_size, alloc_align_mask)
         IN  IF later >= 0 THEN later
             ELSE IF SlotFits(m, d, Head(list), orig_addr, alloc_size,
                              alloc_align_mask)
                  THEN Head(list)
                  ELSE -1

RECURSIVE WalkFreeSlots(_, _, _, _, _, _)
WalkFreeSlots(list, m, d, orig_addr, alloc_size, alloc_align_mask) ==
    IF list = <<>> THEN -1
    ELSE IF SlotFits(m, d, Head(list), orig_addr, alloc_size, alloc_align_mask)
         THEN Head(list)
         ELSE WalkFreeSlots(Tail(list), m, d, orig_addr, alloc_size,
                            alloc_align_mask)

\* the slot index the search stops at, -1 for not_found
SearchArea(m, d, area_index, orig_addr, alloc_size, alloc_align_mask) ==
    IF nr_slots(alloc_size) >
           ULong(m.area_nslabs - m.areas[area_index].used)
    THEN -1
    ELSE WalkFreeSlots(m.areas[area_index].free_slots, m, d, orig_addr,
                       alloc_size, alloc_align_mask)

\* list_del(&mem->slots[i].node): the node leaves whichever list holds it
DelNode(areas, i) ==
    [a \in DOMAIN areas |->
        [areas[a] EXCEPT
            !.free_slots = list_del(i, @),
            !.free_slots_from_other_cpu = list_del(i, @)]]

\* alloc_size recorded for the k-th slot of a run (size_t arithmetic)
SlotAllocSize(alloc_size, offset, k) ==
    ULong(alloc_size - (offset + k * IO_TLB_SIZE))

RECURSIVE DelNodes(_, _, _)
DelNodes(areas, first, n) ==
    IF n = 0 THEN areas
    ELSE DelNodes(DelNode(areas, first), first + 1, n - 1)

\* the code at label found
ClaimSlots(m, d, area_index, slot_index, alloc_size, offset) ==
    LET nslots == nr_slots(alloc_size)
        run == slot_index..(slot_index + nslots - 1)
        del == DelNodes(m.areas, slot_index, nslots)
    IN  [m EXCEPT
            !.bitmap = [i \in DOMAIN m.bitmap |->
                           IF i \in run THEN FALSE ELSE m.bitmap[i]],
            !.slots = [i \in DOMAIN m.slots |->
                          IF i \in run
                          THEN [m.slots[i] EXCEPT !.alloc_size =
                                   SlotAllocSize(alloc_size, offset,
                                                 i - slot_index)]
                          ELSE m.slots[i]],
            !.areas = [del EXCEPT ![area_index].used =
                                      ULong(@ + nslots)]]

\* the node of slot i is linked on some list of the pool
OnAnyList(m, i) ==
    \E a \in DOMAIN m.areas :
        \/ OnList(i, m.areas[a].free_slots)
        \/ OnList(i, m.areas[a].free_slots_from_other_cpu)

\* the slots of a run whose nodes an earlier list_del has already unlinked:
\* their next and prev hold the list poison
Unlinked(m, slot_index, nslots) ==
    {i \in slot_index..(slot_index + nslots - 1) : ~OnAnyList(m, i)}

\* the code at label found up to the list_del that dereferences the
\* poison of the first unlinked node and faults: the bits and alloc_size
\* up to that slot are written, the nodes before it are unlinked, used is
\* not yet increased
ClaimSlotsFault(m, slot_index, alloc_size, offset) ==
    LET nslots == nr_slots(alloc_size)
        bad == Unlinked(m, slot_index, nslots)
        f == CHOOSE i \in bad : \A j \in bad : i <= j
        run == slot_index..f
    IN  [m EXCEPT
            !.bitmap = [i \in DOMAIN m.bitmap |->
                           IF i \in run THEN FALSE ELSE m.bitmap[i]],
            !.slots = [i \in DOMAIN m.slots |->
                          IF i \in run
                          THEN [m.slots[i] EXCEPT !.alloc_size =
                                   SlotAllocSize(alloc_size, offset,
                                                 i - slot_index)]
                          ELSE m.slots[i]],
            !.areas = DelNodes(m.areas, slot_index, f - slot_index)]

(***************************************************************************)
(* swiotlb_find_slots_lockless: the owner's reclamation of the slots       *)
(* other CPUs queued.                                                      *)
(***************************************************************************)
RECURSIVE ReclaimList(_, _, _)
ReclaimList(m, area_index, list) ==
    IF list = <<>> THEN m
    ELSE LET i == Head(list)
             del == DelNode(m.areas, i)
             m1 == [m EXCEPT
                      !.bitmap = [j \in DOMAIN m.bitmap |->
                                     IF j = i THEN TRUE ELSE m.bitmap[j]],
                      !.slots = [j \in DOMAIN m.slots |->
                                    IF j = i
                                    THEN [orig_addr |-> INVALID_PHYS_ADDR,
                                          alloc_size |-> 0]
                                    ELSE m.slots[j]],
                      !.areas = [del EXCEPT
                                    ![area_index].free_slots = list_add(i, @),
                                    ![area_index].used = ULong(@ - 1)]]
         IN  ReclaimList(m1, area_index, Tail(list))

ReclaimSlots(m, area_index) ==
    ReclaimList(m, area_index, m.areas[area_index].free_slots_from_other_cpu)

(***************************************************************************)
(* swiotlb_release_slots.                                                  *)
(***************************************************************************)
\* i = index + nslots - 1 down to index, each list_add at the head
RECURSIVE AddRun(_, _, _)
AddRun(list, index, n) ==
    IF n <= 0 THEN list
    ELSE AddRun(list_add(index + n - 1, list), index, n - 1)

\* an owner's path that leaves alloc_size of the released slots as it was
ReleaseOwner_keep_alloc_size(m, aindex, index, nslots) ==
    LET run == index..(index + nslots - 1) IN
    [m EXCEPT
        !.bitmap = [i \in DOMAIN m.bitmap |->
                       IF i \in run THEN TRUE ELSE m.bitmap[i]],
        !.slots = [i \in DOMAIN m.slots |->
                      IF i \in run
                      THEN [m.slots[i] EXCEPT !.orig_addr = INVALID_PHYS_ADDR]
                      ELSE m.slots[i]],
        !.areas[aindex].free_slots = AddRun(@, index, nslots),
        !.areas[aindex].used = ULong(@ - nslots)]

\* the owner's (or the locked mode's) path
ReleaseOwner(m, aindex, index, nslots) ==
    LET run == index..(index + nslots - 1) IN
    [m EXCEPT
        !.bitmap = [i \in DOMAIN m.bitmap |->
                       IF i \in run THEN TRUE ELSE m.bitmap[i]],
        !.slots = [i \in DOMAIN m.slots |->
                      IF i \in run
                      THEN [orig_addr |-> INVALID_PHYS_ADDR, alloc_size |-> 0]
                      ELSE m.slots[i]],
        !.areas[aindex].free_slots = AddRun(@, index, nslots),
        !.areas[aindex].used = ULong(@ - nslots)]

\* the path of a CPU that is not the area's owner, lockless mode
ReleaseOtherCpu(m, aindex, index, nslots) ==
    [m EXCEPT !.areas[aindex].free_slots_from_other_cpu =
                  AddRun(@, index, nslots)]

mem_used(m) ==
    LET RECURSIVE Sum(_)
        Sum(i) == IF i >= m.nareas THEN 0 ELSE m.areas[i].used + Sum(i + 1)
    IN  Sum(0)

(***************************************************************************)
(* swiotlb_bounce: the copy between the original buffer and the pool.      *)
(***************************************************************************)
PFN_DOWN(addr) == addr \div PAGE_SIZE
pfn_to_page(pfn) == pfn
page_to_phys(page) == page * PAGE_SIZE
PageHighMem(pfn, low) == pfn >= low

\* a PageHighMem loop that keeps the first page's offset on later pages
RECURSIVE HighMemPairs_keep_offset(_, _, _, _)
HighMemPairs_keep_offset(pfn, offset, size, voff) ==
    IF size = 0 THEN {}
    ELSE LET sz == Min(PAGE_SIZE - offset, size) IN
         {<<pfn * PAGE_SIZE + offset + k, voff + k>> : k \in 0..(sz - 1)}
             \cup HighMemPairs_keep_offset(pfn + 1, offset, size - sz,
                                            voff + sz)

\* the PageHighMem loop: one chunk per page of the original buffer
RECURSIVE HighMemPairs(_, _, _, _)
HighMemPairs(pfn, offset, size, voff) ==
    IF size = 0 THEN {}
    ELSE LET sz == Min(PAGE_SIZE - offset, size) IN
         {<<pfn * PAGE_SIZE + offset + k, voff + k>> : k \in 0..(sz - 1)}
             \cup HighMemPairs(pfn + 1, 0, size - sz, voff + sz)

\* a copy without the test for an access before the mapping start
BouncePairs_no_start_check(m, d, low, tlb_addr, size) ==
    LET index == (tlb_addr - m.start) \div IO_TLB_SIZE
        orig_addr == m.slots[index].orig_addr
        alloc_size == m.slots[index].alloc_size
        pfn == PFN_DOWN(orig_addr)
        voff == tlb_addr - m.start
        tlb_offset == BitAnd(tlb_addr, IO_TLB_SIZE - 1)
        orig_addr_offset == swiotlb_align_offset(d, orig_addr)
        off == tlb_offset - orig_addr_offset
        orig2 == orig_addr + off
        alloc2 == alloc_size - off
        sz == IF size > alloc2 THEN alloc2 ELSE size
    IN  IF index \notin DOMAIN m.slots THEN {}
        ELSE IF orig_addr = INVALID_PHYS_ADDR THEN {}
        ELSE IF off > alloc_size THEN {}
        ELSE IF PageHighMem(pfn, low)
             THEN HighMemPairs(pfn, BitAnd(orig2, PAGE_SIZE - 1), sz, voff)
             ELSE {<<orig2 + k, voff + k>> : k \in 0..(sz - 1)}

\* a copy that does not clamp the byte count
BouncePairs_no_clamp(m, d, low, tlb_addr, size) ==
    LET index == (tlb_addr - m.start) \div IO_TLB_SIZE
        orig_addr == m.slots[index].orig_addr
        alloc_size == m.slots[index].alloc_size
        pfn == PFN_DOWN(orig_addr)
        voff == tlb_addr - m.start
        tlb_offset == BitAnd(tlb_addr, IO_TLB_SIZE - 1)
        orig_addr_offset == swiotlb_align_offset(d, orig_addr)
        off == tlb_offset - orig_addr_offset
        orig2 == orig_addr + off
        alloc2 == alloc_size - off
        sz == size
    IN  IF index \notin DOMAIN m.slots THEN {}
        ELSE IF orig_addr = INVALID_PHYS_ADDR THEN {}
        ELSE IF tlb_offset < orig_addr_offset THEN {}
        ELSE IF off > alloc_size THEN {}
        ELSE IF PageHighMem(pfn, low)
             THEN HighMemPairs(pfn, BitAnd(orig2, PAGE_SIZE - 1), sz, voff)
             ELSE {<<orig2 + k, voff + k>> : k \in 0..(sz - 1)}

\* the bytes one call copies, as pairs <<original address, pool offset>>;
\* empty when the call returns without copying
BouncePairs(m, d, low, tlb_addr, size) ==
    LET index == (tlb_addr - m.start) \div IO_TLB_SIZE
        orig_addr == m.slots[index].orig_addr
        alloc_size == m.slots[index].alloc_size
        pfn == PFN_DOWN(orig_addr)
        voff == tlb_addr - m.start
        tlb_offset == BitAnd(tlb_addr, IO_TLB_SIZE - 1)
        orig_addr_offset == swiotlb_align_offset(d, orig_addr)
        off == tlb_offset - orig_addr_offset
        orig2 == orig_addr + off
        alloc2 == alloc_size - off
        sz == IF size > alloc2 THEN alloc2 ELSE size
    IN  IF index \notin DOMAIN m.slots THEN {}
        ELSE IF orig_addr = INVALID_PHYS_ADDR THEN {}
        ELSE IF tlb_offset < orig_addr_offset THEN {}
        ELSE IF off > alloc_size THEN {}
        ELSE IF PageHighMem(pfn, low)
             THEN HighMemPairs(pfn, BitAnd(orig2, PAGE_SIZE - 1), sz, voff)
             ELSE {<<orig2 + k, voff + k>> : k \in 0..(sz - 1)}

\* memcpy from the original buffer to the pool (DMA_TO_DEVICE)
CopyToTlb(pairs, ob, tb) ==
    [v \in DOMAIN tb |->
        IF \E p \in pairs : p[2] = v /\ p[1] \in DOMAIN ob
        THEN ob[(CHOOSE p \in pairs : p[2] = v /\ p[1] \in DOMAIN ob)[1]]
        ELSE tb[v]]

\* memcpy from the pool to the original buffer (any other direction)
CopyToOrig(pairs, ob, tb) ==
    [o \in DOMAIN ob |->
        IF \E p \in pairs : p[1] = o /\ p[2] \in DOMAIN tb
        THEN tb[(CHOOSE p \in pairs : p[1] = o /\ p[2] \in DOMAIN tb)[2]]
        ELSE ob[o]]

\* the two buffers after swiotlb_bounce(dev, tlb_addr, size, dir)
swiotlb_bounce(m, d, low, tlb_addr, size, dir, ob, tb) ==
    LET pairs == BouncePairs(m, d, low, tlb_addr, size) IN
    IF dir = DMA_TO_DEVICE
    THEN [orig |-> ob, tlb |-> CopyToTlb(pairs, ob, tb)]
    ELSE [orig |-> CopyToOrig(pairs, ob, tb), tlb |-> tb]

(***************************************************************************)
(* Tasks.  A task is one call of the allocator under way; it runs on       *)
(* cpu[t], and between local_irq_save and local_irq_restore nothing else   *)
(* runs on that CPU.                                                       *)
(***************************************************************************)
NoLoc ==
    [ op |-> "none", orig_addr |-> 0, mapping_size |-> 0, alloc_size |-> 0,
      alloc_align_mask |-> 0, offset |-> 0, start |-> 0, i |-> 0,
      second |-> FALSE, slot_index |-> -1, index |-> -1, tlb_addr |-> 0,
      nslots |-> 0, aindex |-> 0, ncpu |-> 0, tried |-> <<>>, id |-> 0,
      acpu |-> 0, before |-> <<>> ]

\* interrupts are masked on the task's CPU: it is between the search and
\* the claim of swiotlb_do_find_slots
IrqOff(u) == pc[u] = "claiming"

\* task t may run on CPU c: no other task has interrupts masked there
CpuFree(t, c) == \A u \in Tasks \ {t} : cpu[u] = c => ~IrqOff(u)
CanRun(t) == CpuFree(t, cpu[t])

\* spin_lock / spin_unlock on mem->areas[a].lock
LockFree(a) == mem.areas[a].lock = 0
SpinLock(m, a, t) == [m EXCEPT !.areas[a].lock = t]
SpinUnlock(m, a) == [m EXCEPT !.areas[a].lock = 0]

\* swiotlb_lock: local_irq_save in lockless mode, spin_lock_irqsave otherwise
swiotlb_lock_ready(a) == swiotlb_lockless_mode \/ LockFree(a)
swiotlb_lock(m, a, t) == IF swiotlb_lockless_mode THEN m ELSE SpinLock(m, a, t)

\* an unlock that only restores the interrupt flags in either mode
swiotlb_unlock_irq_only(m, a) == m

swiotlb_unlock(m, a) == IF swiotlb_lockless_mode THEN m ELSE SpinUnlock(m, a)

\* the slots on any free list, one entry per list position
AllListed ==
    LET RECURSIVE Cat(_)
        Cat(a) == IF a >= mem.nareas THEN <<>>
                  ELSE mem.areas[a].free_slots \o
                       mem.areas[a].free_slots_from_other_cpu \o Cat(a + 1)
    IN  Cat(0)

Overlap(a, b) ==
    a.index < b.index + b.nslots /\ b.index < a.index + a.nslots

(***************************************************************************)
(* The lists and counters are beyond repair: a node is linked twice, a     *)
(* used counter has wrapped or exceeds its area, two allocations own the   *)
(* same slot, or a slot that is handed out is marked free or is about to   *)
(* be freed by a release of an earlier owner, or a call has faulted in     *)
(* list_del.  What list_add and list_del do from here on is undefined;     *)
(* the model lets the calls under way finish and starts no new one.        *)
(***************************************************************************)
Units(a) == a.index..(a.index + a.nslots - 1)
Releasing(u) == IF pc[u] = "rel_lock" THEN Units(loc[u]) ELSE {}

Broken ==
    \/ \E j, k \in 1..Len(AllListed) : j # k /\ AllListed[j] = AllListed[k]
    \/ \E a \in DOMAIN mem.areas : mem.areas[a].used > mem.area_nslabs
    \/ \E a, b \in live : a # b /\ Overlap(a, b)
    \/ \E a \in live : \E i \in Units(a) : test_bit(mem, i)
    \/ \E a \in live, u \in Tasks : Units(a) \cap Releasing(u) # {}
    \/ \E u \in Tasks : pc[u] = "oops"

\* the allocations handed out plus the calls that may still add one
Outstanding ==
    Cardinality(live) +
    Cardinality({u \in Tasks : pc[u] \in {"do_find", "claiming", "reclaim"}})

\* a call is entered on CPU c
OnCpu(t, c) ==
    /\ pc[t] = "idle"
    /\ ~Broken
    /\ CpuFree(t, c)
    /\ cpu' = [cpu EXCEPT ![t] = c]

\* the call returns to its caller
Done(t) ==
    /\ pc' = [pc EXCEPT ![t] = "idle"]
    /\ loc' = [loc EXCEPT ![t] = NoLoc]
    /\ cpu' = [cpu EXCEPT ![t] = 0]

\* the task moves to another CPU between reading raw_smp_processor_id()
\* and masking interrupts in swiotlb_release_slots
Migrate(t, c) ==
    /\ pc[t] = "rel_lock"
    /\ c # cpu[t]
    /\ cpu' = [cpu EXCEPT ![t] = c]
    /\ UNCHANGED <<mem, config, pc, loc, live, bufs>>

\* swiotlb_find_slots up to its first call of swiotlb_do_find_slots
EnterFindSlots(t, c, l) ==
    LET start == BitAnd(c, mem.nareas - 1) IN
    /\ loc' = [loc EXCEPT ![t] = [l EXCEPT !.start = start, !.i = start,
                                           !.acpu = c]]
    /\ pc' = [pc EXCEPT ![t] = "do_find"]

\* a swiotlb_tbl_map_single without the test of mapping_size against
\* alloc_size
swiotlb_tbl_map_single_unchecked(t, c, orig_addr, mapping_size, alloc_size, alloc_align_mask) ==
    LET offset == swiotlb_align_offset(dev, orig_addr) IN
    /\ OnCpu(t, c)
    /\ Outstanding < MaxLive
    /\ EnterFindSlots(t, c, [NoLoc EXCEPT !.op = "map",
                                          !.orig_addr = orig_addr,
                                          !.mapping_size = mapping_size,
                                          !.alloc_size = alloc_size + offset,
                                          !.alloc_align_mask = alloc_align_mask,
                                          !.offset = offset])
    /\ UNCHANGED <<mem, config, live, bufs>>

\* swiotlb_tbl_map_single up to swiotlb_find_slots
swiotlb_tbl_map_single(t, c, orig_addr, mapping_size, alloc_size, alloc_align_mask) ==
    LET offset == swiotlb_align_offset(dev, orig_addr) IN
    /\ OnCpu(t, c)
    /\ Outstanding < MaxLive
    /\ IF mem.nslabs = 0 \/ mapping_size > alloc_size
       THEN UNCHANGED <<pc, loc>>
       ELSE EnterFindSlots(t, c, [NoLoc EXCEPT
                                     !.op = "map",
                                     !.orig_addr = orig_addr,
                                     !.mapping_size = mapping_size,
                                     !.alloc_size = alloc_size + offset,
                                     !.alloc_align_mask = alloc_align_mask,
                                     !.offset = offset])
    /\ UNCHANGED <<mem, config, live, bufs>>

\* the bitmap, the slot metadata, the used counts and the units on each
\* free_slots list, as a call of swiotlb_map finds them
Bookkeeping(m) ==
    << m.bitmap, m.slots,
       [a \in DOMAIN m.areas |-> m.areas[a].used],
       [a \in DOMAIN m.areas |->
           {m.areas[a].free_slots[k] : k \in DOMAIN m.areas[a].free_slots}] >>

\* swiotlb_map up to swiotlb_find_slots: swiotlb_tbl_map_single with
\* alloc_size = mapping_size = size and no alloc_align_mask
swiotlb_map(t, c, paddr, size) ==
    LET offset == swiotlb_align_offset(dev, paddr) IN
    /\ OnCpu(t, c)
    /\ Outstanding < MaxLive
    /\ IF mem.nslabs = 0
       THEN UNCHANGED <<pc, loc>>
       ELSE EnterFindSlots(t, c, [NoLoc EXCEPT
                                     !.op = "map",
                                     !.orig_addr = paddr,
                                     !.mapping_size = size,
                                     !.alloc_size = size + offset,
                                     !.offset = offset,
                                     !.before = Bookkeeping(mem)])
    /\ UNCHANGED <<mem, config, live, bufs>>

\* swiotlb_alloc up to swiotlb_find_slots; dma-direct calls it for pools
\* with for_alloc set and with a size that is a multiple of PAGE_SIZE
swiotlb_alloc(t, c, size) ==
    /\ OnCpu(t, c)
    /\ Outstanding < MaxLive
    /\ EnterFindSlots(t, c, [NoLoc EXCEPT !.op = "alloc",
                                          !.alloc_size = size])
    /\ UNCHANGED <<mem, config, live, bufs>>

\* a loop that walks on past the last area
NextArea_no_wrap(m, i) == i + 1

\* if (++i >= mem->nareas) i = 0;
NextArea(m, i) == IF i + 1 >= m.nareas THEN 0 ELSE i + 1

\* what the caller of a failed swiotlb_do_find_slots does next
AfterNotFound(t, l) ==
    LET next == NextArea(mem, l.i) IN
    IF swiotlb_lockless_mode
    THEN IF ~l.second
         THEN /\ loc' = [loc EXCEPT ![t] = l]
              /\ pc' = [pc EXCEPT ![t] = "reclaim"]
              /\ cpu' = cpu
         ELSE Done(t)
    ELSE IF next # l.start
         THEN /\ loc' = [loc EXCEPT ![t] = [l EXCEPT !.i = next]]
              /\ pc' = [pc EXCEPT ![t] = "do_find"]
              /\ cpu' = cpu
         ELSE Done(t)

\* swiotlb_do_find_slots from its entry to label found or to the return
\* at not_found: the BUG_ONs, swiotlb_lock, the capacity test and the walk
\* of the free list
FindSearch(t) ==
    LET l == loc[t]
        idx == SearchArea(mem, dev, l.i, l.orig_addr, l.alloc_size,
                          l.alloc_align_mask)
        seen == [l EXCEPT !.tried = Append(@, l.i)]
    IN  /\ pc[t] = "do_find"
        /\ CanRun(t)
        /\ IF nr_slots(l.alloc_size) = 0 \/ l.i >= mem.nareas
           THEN /\ pc' = [pc EXCEPT ![t] = "BUG"]
                /\ UNCHANGED <<mem, loc, cpu>>
           ELSE /\ swiotlb_lock_ready(l.i)
                /\ IF idx >= 0
                   THEN /\ loc' = [loc EXCEPT ![t] =
                                      [seen EXCEPT !.slot_index = idx]]
                        /\ pc' = [pc EXCEPT ![t] = "claiming"]
                        /\ mem' = swiotlb_lock(mem, l.i, t)
                        /\ cpu' = cpu
                   ELSE /\ mem' = mem
                        /\ AfterNotFound(t, seen)
        /\ UNCHANGED <<config, live, bufs>>

\* a name that tells a new allocation from an equal one that is live
FreshId(l, index) ==
    Cardinality({a \in live : a.index = index /\
                              a.nslots = nr_slots(l.alloc_size)})

\* an allocation as its owner knows it, with the area it came from and the
\* CPU that made it
Allocation(id, l, index, tlb_addr, ready) ==
    [ id |-> id, op |-> l.op, index |-> index,
      nslots |-> nr_slots(l.alloc_size), area |-> l.i, cpu |-> l.acpu,
      home |-> l.start, tlb_addr |-> tlb_addr,
      orig_addr |-> l.orig_addr, size |-> l.mapping_size, ready |-> ready ]

\* swiotlb_do_find_slots from label found to its return; swiotlb_alloc
\* returns right after it.  A list_del of a node that another claim has
\* already unlinked is undefined: it is reported and skipped (list
\* debugging), or it faults on the list poison and the call never returns,
\* its area lock still held.
FindClaim(t) ==
    LET l == loc[t]
        claimed == ClaimSlots(mem, dev, l.i, l.slot_index, l.alloc_size,
                              l.offset)
        tlb_addr == slot_addr(mem.start, l.slot_index)
        page == page_to_phys(pfn_to_page(PFN_DOWN(tlb_addr)))
        id == FreshId(l, l.slot_index)
    IN  /\ pc[t] = "claiming"
        /\ \/ /\ mem' = swiotlb_unlock(claimed, l.i)
              /\ IF l.op = "alloc"
                 THEN /\ live' = live \cup
                             {Allocation(id, l, l.slot_index, page, TRUE)}
                      /\ Done(t)
                 ELSE /\ loc' = [loc EXCEPT ![t] =
                                    [l EXCEPT !.index = l.slot_index,
                                              !.id = id]]
                      /\ live' = live \cup
                             {Allocation(id, l, l.slot_index, 0, FALSE)}
                      /\ pc' = [pc EXCEPT ![t] = "map_fill"]
                      /\ cpu' = cpu
           \/ /\ Unlinked(mem, l.slot_index, nr_slots(l.alloc_size)) # {}
              /\ mem' = ClaimSlotsFault(mem, l.slot_index, l.alloc_size,
                                        l.offset)
              /\ pc' = [pc EXCEPT ![t] = "oops"]
              /\ UNCHANGED <<cpu, loc, live>>
        /\ UNCHANGED <<config, bufs>>

\* swiotlb_find_slots_lockless: the reclamation under area->lock between
\* the two searches
Reclaim(t) ==
    /\ pc[t] = "reclaim"
    /\ CanRun(t)
    /\ LockFree(loc[t].i)
    /\ mem' = ReclaimSlots(mem, loc[t].i)
    /\ loc' = [loc EXCEPT ![t].second = TRUE]
    /\ pc' = [pc EXCEPT ![t] = "do_find"]
    /\ UNCHANGED <<config, cpu, live, bufs>>

\* orig_addr of the run's slots, as swiotlb_tbl_map_single saves it
SaveOrigAddr(m, index, n, orig_addr) ==
    [m EXCEPT !.slots =
        [i \in DOMAIN m.slots |->
            IF i >= index /\ i < index + n
            THEN [m.slots[i] EXCEPT
                     !.orig_addr = slot_addr(orig_addr, i - index)]
            ELSE m.slots[i]]]

\* swiotlb_tbl_map_single after swiotlb_find_slots returned an index
MapFill(t) ==
    LET l == loc[t]
        tlb_addr == slot_addr(mem.start, l.index) + l.offset
        saved == SaveOrigAddr(mem, l.index, nr_slots(l.alloc_size),
                              l.orig_addr)
        copied == swiotlb_bounce(saved, dev, max_low_pfn, tlb_addr,
                                 l.mapping_size, DMA_TO_DEVICE,
                                 orig_buf, tlb_buf)
    IN  /\ pc[t] = "map_fill"
        /\ CanRun(t)
        /\ mem' = saved
        /\ orig_buf' = copied.orig
        /\ tlb_buf' = copied.tlb
        /\ live' = (live \ {Allocation(l.id, l, l.index, 0, FALSE)}) \cup
                       {Allocation(l.id, l, l.index, tlb_addr, TRUE)}
        /\ IF l.before = <<>>
           THEN Done(t)
           ELSE /\ loc' = [loc EXCEPT ![t] = [l EXCEPT !.tlb_addr = tlb_addr]]
                /\ pc' = [pc EXCEPT ![t] = "dma_capable"]
                /\ cpu' = cpu
        /\ UNCHANGED config

\* swiotlb_release_slots up to swiotlb_lock: the locals it computes from
\* tlb_addr before interrupts are masked
EnterReleaseSlots(t, c, op, tlb_addr, acpu) ==
    LET offset == swiotlb_align_offset(dev, tlb_addr)
        index == (tlb_addr - offset - mem.start) \div IO_TLB_SIZE
        nslots == nr_slots(mem.slots[index].alloc_size + offset)
        aindex == index \div mem.area_nslabs
        ncpu == BitAnd(c, mem.nareas - 1)
    IN  /\ loc' = [loc EXCEPT ![t] =
                      [NoLoc EXCEPT !.op = op, !.tlb_addr = tlb_addr,
                                    !.offset = offset, !.index = index,
                                    !.nslots = nslots, !.aindex = aindex,
                                    !.ncpu = ncpu, !.acpu = acpu,
                                    !.before = loc[t].before]]
        /\ pc' = [pc EXCEPT ![t] = IF aindex >= mem.nareas THEN "BUG"
                                   ELSE "rel_lock"]

\* a swiotlb_tbl_unmap_single that ignores DMA_ATTR_SKIP_CPU_SYNC
swiotlb_tbl_unmap_single_always_sync(t, c, a, dir, skip_cpu_sync) ==
    LET copied == IF dir \in {DMA_FROM_DEVICE, DMA_BIDIRECTIONAL}
                  THEN swiotlb_bounce(mem, dev, max_low_pfn, a.tlb_addr,
                                      a.size, DMA_FROM_DEVICE,
                                      orig_buf, tlb_buf)
                  ELSE [orig |-> orig_buf, tlb |-> tlb_buf]
    IN  /\ OnCpu(t, c)
        /\ a \in live /\ a.ready /\ a.op = "map"
        /\ orig_buf' = copied.orig
        /\ tlb_buf' = copied.tlb
        /\ live' = live \ {a}
        /\ EnterReleaseSlots(t, c, "unmap", a.tlb_addr, a.cpu)
        /\ UNCHANGED <<mem, config>>

\* swiotlb_tbl_unmap_single up to swiotlb_lock in swiotlb_release_slots
swiotlb_tbl_unmap_single(t, c, a, dir, skip_cpu_sync) ==
    LET copied == IF ~skip_cpu_sync /\
                     dir \in {DMA_FROM_DEVICE, DMA_BIDIRECTIONAL}
                  THEN swiotlb_bounce(mem, dev, max_low_pfn, a.tlb_addr,
                                      a.size, DMA_FROM_DEVICE,
                                      orig_buf, tlb_buf)
                  ELSE [orig |-> orig_buf, tlb |-> tlb_buf]
    IN  /\ OnCpu(t, c)
        /\ a \in live /\ a.ready /\ a.op = "map"
        /\ orig_buf' = copied.orig
        /\ tlb_buf' = copied.tlb
        /\ live' = live \ {a}
        /\ EnterReleaseSlots(t, c, "unmap", a.tlb_addr, a.cpu)
        /\ UNCHANGED <<mem, config>>

\* swiotlb_release_slots called on CPU c with a bounce address no live
\* mapping holds: the locals are computed from the slot's metadata as it
\* is now, then the call goes on to swiotlb_lock
swiotlb_release_slots(t, c, tlb_addr) ==
    /\ OnCpu(t, c)
    /\ tlb_addr \in mem.start..(mem.end - 1)
    /\ \A a \in live : a.tlb_addr # tlb_addr
    /\ EnterReleaseSlots(t, c, "release", tlb_addr, c)
    /\ UNCHANGED <<mem, config, live, bufs>>

\* swiotlb_map after swiotlb_tbl_map_single returned a bounce address, on
\* the CPU c the task runs on by now: it returns the address when
\* dma_capable says the device can reach it, and otherwise calls
\* swiotlb_tbl_unmap_single with DMA_ATTR_SKIP_CPU_SYNC, which copies
\* nothing, and goes on to swiotlb_lock in swiotlb_release_slots
swiotlb_map_dma_capable(t, c, capable) ==
    LET l == loc[t]
        a == Allocation(l.id, l, l.index, l.tlb_addr, TRUE)
    IN  /\ pc[t] = "dma_capable"
        /\ CpuFree(t, c)
        /\ IF capable
           THEN /\ Done(t)
                /\ live' = live
           ELSE /\ cpu' = [cpu EXCEPT ![t] = c]
                /\ live' = live \ {a}
                /\ EnterReleaseSlots(t, c, "unmap", l.tlb_addr, l.acpu)
        /\ UNCHANGED <<mem, config, bufs>>

\* swiotlb_free up to swiotlb_lock in swiotlb_release_slots
swiotlb_free(t, c, a) ==
    /\ OnCpu(t, c)
    /\ a \in live /\ a.ready /\ a.op = "alloc"
    /\ a.tlb_addr >= mem.start /\ a.tlb_addr < mem.end
    /\ live' = live \ {a}
    /\ EnterReleaseSlots(t, c, "free", a.tlb_addr, a.cpu)
    /\ UNCHANGED <<mem, config, bufs>>

\* swiotlb_release_slots from swiotlb_lock to its return: the other CPU's
\* path under area->lock in lockless mode, the owner's path otherwise
ReleaseSlots(t) ==
    LET l == loc[t] IN
    /\ pc[t] = "rel_lock"
    /\ CanRun(t)
    /\ IF swiotlb_lockless_mode /\ l.aindex # l.ncpu
       THEN /\ LockFree(l.aindex)
            /\ mem' = ReleaseOtherCpu(mem, l.aindex, l.index, l.nslots)
       ELSE /\ swiotlb_lock_ready(l.aindex)
            /\ mem' = ReleaseOwner(mem, l.aindex, l.index, l.nslots)
    /\ Done(t)
    /\ UNCHANGED <<config, live, bufs>>

\* swiotlb_sync_single_for_device
swiotlb_sync_single_for_device(t, c, tlb_addr, size, dir) ==
    LET copied == swiotlb_bounce(mem, dev, max_low_pfn, tlb_addr, size,
                                 DMA_TO_DEVICE, orig_buf, tlb_buf)
    IN  /\ pc[t] = "idle"
        /\ CpuFree(t, c)
        /\ IF dir \in {DMA_TO_DEVICE, DMA_BIDIRECTIONAL}
           THEN orig_buf' = copied.orig /\ tlb_buf' = copied.tlb
           ELSE UNCHANGED bufs
        /\ UNCHANGED <<mem, config, cpu, pc, loc, live>>

\* swiotlb_sync_single_for_cpu
swiotlb_sync_single_for_cpu(t, c, tlb_addr, size, dir) ==
    LET copied == swiotlb_bounce(mem, dev, max_low_pfn, tlb_addr, size,
                                 DMA_FROM_DEVICE, orig_buf, tlb_buf)
    IN  /\ pc[t] = "idle"
        /\ CpuFree(t, c)
        /\ IF dir \in {DMA_FROM_DEVICE, DMA_BIDIRECTIONAL}
           THEN orig_buf' = copied.orig /\ tlb_buf' = copied.tlb
           ELSE UNCHANGED bufs
        /\ UNCHANGED <<mem, config, cpu, pc, loc, live>>

\* one step of a call that is under way
Step(t) ==
    \/ FindSearch(t)
    \/ FindClaim(t)
    \/ Reclaim(t)
    \/ MapFill(t)
    \/ ReleaseSlots(t)

(***************************************************************************)
(* Spec: tasks on several CPUs map, allocate, unmap and free concurrently  *)
(* on a pool brought up by swiotlb_init_late or as a restricted pool, in   *)
(* locked or in lockless mode.                                             *)
(***************************************************************************)
PoolStart == 8 * PAGE_SIZE
OrigTop == 4 * PAGE_SIZE

\* sizes handed to swiotlb_init_late and reserved for a restricted pool
LatePoolBytes == {4 * IO_TLB_SIZE}
RmemPoolBytes == {4 * IO_TLB_SIZE}
\* nareas given on the command line, 0 for none
CmdlineNareas == {0, 1}

\* the requests of the concurrent tasks: one or two slots
ReqSizes == {IO_TLB_SIZE, IO_TLB_SIZE + 1}
AllocSizes == {PAGE_SIZE}
ReqOrigAddrs == {PAGE_SIZE}

PlainDev == [min_align_mask |-> 0, seg_boundary |-> ULONG_MAX]

ZeroBuf(n) == [x \in 0..(n - 1) |-> 0]

InitTasks ==
    /\ cpu = [t \in Tasks |-> 0]
    /\ pc = [t \in Tasks |-> "idle"]
    /\ loc = [t \in Tasks |-> NoLoc]
    /\ live = {}

Init ==
    /\ \/ \E size \in LatePoolBytes, na \in CmdlineNareas :
             mem = swiotlb_init_late(PoolStart, size, na)
       \/ \E size \in RmemPoolBytes :
             mem = rmem_swiotlb_device_init(PoolStart, size)
    /\ swiotlb_lockless_mode \in BOOLEAN
    /\ dev = PlainDev
    /\ max_low_pfn = ULONG_MAX
    /\ orig_buf = ZeroBuf(OrigTop)
    /\ tlb_buf = ZeroBuf(mem.nslabs * IO_TLB_SIZE)
    /\ InitTasks

Next ==
    \E t \in Tasks :
        \/ \E c \in Cpus, o \in ReqOrigAddrs, s \in ReqSizes :
               swiotlb_tbl_map_single(t, c, o, s, s, 0)
        \/ \E c \in Cpus, s \in AllocSizes :
               mem.for_alloc /\ swiotlb_alloc(t, c, s)
        \/ \E c \in Cpus, a \in live :
               swiotlb_tbl_unmap_single(t, c, a, DMA_TO_DEVICE, FALSE)
        \/ \E c \in Cpus, a \in live : swiotlb_free(t, c, a)
        \/ \E c \in Cpus : Migrate(t, c)
        \/ Step(t)

Spec == Init /\ [][Next]_vars

(***************************************************************************)
(* SpecFair: tasks on several CPUs map and unmap two-slot buffers on a     *)
(* pool brought up by swiotlb_init_late, in locked or in lockless mode,    *)
(* with the scheduling the kernel gives a call under way: a context that   *)
(* can run does run, and the queued spinlock hands the lock to every       *)
(* waiter in turn.  Whether a new call is made is up to the callers.       *)
(***************************************************************************)
FairSizes == {IO_TLB_SIZE + 1}

InitFair ==
    /\ \E size \in LatePoolBytes, na \in CmdlineNareas :
             mem = swiotlb_init_late(PoolStart, size, na)
    /\ swiotlb_lockless_mode \in BOOLEAN
    /\ dev = PlainDev
    /\ max_low_pfn = ULONG_MAX
    /\ orig_buf = ZeroBuf(OrigTop)
    /\ tlb_buf = ZeroBuf(mem.nslabs * IO_TLB_SIZE)
    /\ InitTasks

NextFair ==
    \E t \in Tasks :
        \/ \E c \in Cpus, o \in ReqOrigAddrs, s \in FairSizes :
               swiotlb_tbl_map_single(t, c, o, s, s, 0)
        \/ \E c \in Cpus, a \in live :
               swiotlb_tbl_unmap_single(t, c, a, DMA_TO_DEVICE, FALSE)
        \/ \E c \in Cpus : Migrate(t, c)
        \/ Step(t)

SpecFair ==
    InitFair /\ [][NextFair]_vars /\ \A t \in Tasks : SF_vars(Step(t))

(***************************************************************************)
(* SpecSearch: one context maps and unmaps on a restricted pool of one     *)
(* segment and a half, for devices with a min-align mask and a segment     *)
(* boundary and for pools at two bus addresses, so that the search meets   *)
(* every constraint.                                                       *)
(***************************************************************************)
SearchPoolBytes == {6 * IO_TLB_SIZE}
SearchPoolStarts == {8 * PAGE_SIZE, 9 * PAGE_SIZE}
SearchMinAlignMasks == {0, IO_TLB_SIZE - 1, 2 * IO_TLB_SIZE - 1,
                        4 * IO_TLB_SIZE - 1}
SearchSegBoundaries == {ULONG_MAX, 2 * IO_TLB_SIZE - 1,
                        IO_TLB_SEGSIZE * IO_TLB_SIZE - 1}
SearchOrigAddrs == {PAGE_SIZE, PAGE_SIZE + IO_TLB_SIZE + 1}
SearchSizes == {1, IO_TLB_SIZE + 1, PAGE_SIZE + 1}

InitSearch ==
    /\ \E start \in SearchPoolStarts, size \in SearchPoolBytes :
             mem = rmem_swiotlb_device_init(start, size)
    /\ swiotlb_lockless_mode = FALSE
    /\ \E m \in SearchMinAlignMasks, b \in SearchSegBoundaries :
             dev = [min_align_mask |-> m, seg_boundary |-> b]
    /\ max_low_pfn = ULONG_MAX
    /\ orig_buf = ZeroBuf(OrigTop)
    /\ tlb_buf = ZeroBuf(mem.nslabs * IO_TLB_SIZE)
    /\ InitTasks

NextSearch ==
    \E t \in {1} :
        \/ \E c \in {0}, o \in SearchOrigAddrs, s \in SearchSizes :
               swiotlb_tbl_map_single(t, c, o, s, s, 0)
        \/ \E c \in {0}, a \in live :
               swiotlb_tbl_unmap_single(t, c, a, DMA_TO_DEVICE, FALSE)
        \/ FindSearch(t)
        \/ FindClaim(t)
        \/ MapFill(t)
        \/ ReleaseSlots(t)

SpecSearch == InitSearch /\ [][NextSearch]_vars

(***************************************************************************)
(* SpecCopy: one context maps a buffer of every size up to                 *)
(* swiotlb_max_mapping_size, the CPU and the device write their data, the  *)
(* context syncs the whole mapping in either direction and unmaps.  The    *)
(* original buffers lie in lowmem or in highmem.                           *)
(***************************************************************************)
\* a maximum that leaves the min-align mask out of account
swiotlb_max_mapping_size_no_align(d) == IO_TLB_SIZE * IO_TLB_SEGSIZE

swiotlb_max_mapping_size(d) ==
    LET min_align_mask == dma_get_min_align_mask(d)
        min_align == IF min_align_mask # 0
                     THEN roundup(min_align_mask, IO_TLB_SIZE)
                     ELSE 0
    IN  ULong(IO_TLB_SIZE * IO_TLB_SEGSIZE - min_align)

CopyPoolBytes == {4 * IO_TLB_SIZE}
CopyMinAlignMasks == {0, IO_TLB_SIZE - 1, 2 * IO_TLB_SIZE - 1}
CopyLowPfns == {ULONG_MAX, 1}
CopyOrigAddrs == {PAGE_SIZE, 2 * PAGE_SIZE - 3, 2 * PAGE_SIZE - 1}
CopyDirs == {DMA_BIDIRECTIONAL, DMA_TO_DEVICE, DMA_FROM_DEVICE}

\* the data the buffers hold at first, the CPU's and the device's writes
FirstData(x) == x + 1
CpuData(x) == OrigTop + x + 1
DevData(v) == 2 * OrigTop + v + 1

\* the bytes of a mapping in the original buffer and in the pool
OrigRange(a) == a.orig_addr..(a.orig_addr + a.size - 1)
TlbRange(a) ==
    (a.tlb_addr - mem.start)..(a.tlb_addr - mem.start + a.size - 1)

\* the driver fills the buffer it has mapped
CpuWrite(t, a) ==
    /\ pc[t] = "idle"
    /\ a \in live /\ a.ready /\ a.op = "map"
    /\ orig_buf' = [x \in DOMAIN orig_buf |->
                       IF x \in OrigRange(a) THEN CpuData(x) ELSE orig_buf[x]]
    /\ UNCHANGED <<mem, config, cpu, pc, loc, live, tlb_buf>>

\* the device writes the bounce buffer it was handed
DeviceWrite(a) ==
    /\ a \in live /\ a.ready /\ a.op = "map"
    /\ tlb_buf' = [v \in DOMAIN tlb_buf |->
                      IF v \in TlbRange(a) THEN DevData(v) ELSE tlb_buf[v]]
    /\ UNCHANGED <<mem, config, cpu, pc, loc, live, orig_buf>>

InitCopy ==
    /\ \E size \in CopyPoolBytes : mem = swiotlb_init_late(PoolStart, size, 1)
    /\ swiotlb_lockless_mode = FALSE
    /\ \E m \in CopyMinAlignMasks :
             dev = [min_align_mask |-> m, seg_boundary |-> ULONG_MAX]
    /\ max_low_pfn \in CopyLowPfns
    /\ orig_buf = [x \in 0..(OrigTop - 1) |-> FirstData(x)]
    /\ tlb_buf = ZeroBuf(mem.nslabs * IO_TLB_SIZE)
    /\ InitTasks

\* nothing has been mapped or written yet
Fresh ==
    /\ live = {}
    /\ orig_buf = [x \in 0..(OrigTop - 1) |-> FirstData(x)]
    /\ tlb_buf = ZeroBuf(mem.nslabs * IO_TLB_SIZE)

NextCopy ==
    \E t \in {1} :
        \/ \E c \in {0}, o \in CopyOrigAddrs,
              s \in 1..swiotlb_max_mapping_size(dev) :
               Fresh /\ swiotlb_tbl_map_single(t, c, o, s, s, 0)
        \/ \E c \in {0}, a \in live, dir \in CopyDirs, skip \in BOOLEAN :
               swiotlb_tbl_unmap_single(t, c, a, dir, skip)
        \/ \E c \in {0}, a \in live, dir \in CopyDirs :
               swiotlb_sync_single_for_device(t, c, a.tlb_addr, a.size, dir)
        \/ \E c \in {0}, a \in live, dir \in CopyDirs :
               swiotlb_sync_single_for_cpu(t, c, a.tlb_addr, a.size, dir)
        \/ \E a \in live : CpuWrite(t, a)
        \/ \E a \in live : DeviceWrite(a)
        \/ FindSearch(t)
        \/ FindClaim(t)
        \/ MapFill(t)
        \/ ReleaseSlots(t)

SpecCopy == InitCopy /\ [][NextCopy]_vars

(***************************************************************************)
(* SpecSync: one context maps a buffer, with a mapping size that may       *)
(* exceed the allocation size, and syncs at any address of the pool for    *)
(* lengths inside and beyond the mapping, before and after the unmap.      *)
(***************************************************************************)
SyncPoolBytes == {4 * IO_TLB_SIZE}
SyncMinAlignMasks == {0, IO_TLB_SIZE - 1}
SyncOrigAddrs == {PAGE_SIZE + 1}
SyncMapSizes == {1, IO_TLB_SIZE + 1}
SyncAllocSizes == {1, IO_TLB_SIZE + 1}
SyncLens == {1, 3 * IO_TLB_SIZE + 1}
SyncAddrs == mem.start..(mem.end - 1)
\* alloc_align_mask of the caller: none, 2^1 - 1 and two pages
SyncAllocAlignMasks == {0, 1, 2 * PAGE_SIZE - 1}
SyncPoolStarts == {8 * PAGE_SIZE, 9 * PAGE_SIZE}

InitSync ==
    /\ \E start \in SyncPoolStarts, size \in SyncPoolBytes :
             mem = swiotlb_init_late(start, size, 1)
    /\ swiotlb_lockless_mode = FALSE
    /\ \E m \in SyncMinAlignMasks :
             dev = [min_align_mask |-> m, seg_boundary |-> ULONG_MAX]
    /\ max_low_pfn \in CopyLowPfns
    /\ orig_buf = [x \in 0..(OrigTop - 1) |-> FirstData(x)]
    /\ tlb_buf = ZeroBuf(mem.nslabs * IO_TLB_SIZE)
    /\ InitTasks

NextSync ==
    \E t \in {1} :
        \/ \E c \in {0}, o \in SyncOrigAddrs, ms \in SyncMapSizes,
              as \in SyncAllocSizes, am \in SyncAllocAlignMasks :
               Fresh /\ swiotlb_tbl_map_single(t, c, o, ms, as, am)
        \/ \E c \in {0}, a \in live, dir \in CopyDirs :
               swiotlb_tbl_unmap_single(t, c, a, dir, FALSE)
        \/ \E c \in {0}, x \in SyncAddrs, n \in SyncLens, dir \in CopyDirs :
               swiotlb_sync_single_for_device(t, c, x, n, dir)
        \/ \E c \in {0}, x \in SyncAddrs, n \in SyncLens, dir \in CopyDirs :
               swiotlb_sync_single_for_cpu(t, c, x, n, dir)
        \/ FindSearch(t)
        \/ FindClaim(t)
        \/ MapFill(t)
        \/ ReleaseSlots(t)

SpecSync == InitSync /\ [][NextSync]_vars

(***************************************************************************)
(* SpecBoot: the pool is the default pool brought up by swiotlb_init_remap *)
(* or by swiotlb_init_late, the default pool left all zero by a            *)
(* swiotlb_init_late that failed with -ENOMEM, or a restricted pool; the   *)
(* lockless flag is what the command line and swiotlb_init_remap leave.    *)
(* swiotlb_init_late is also run with more areas than its pool has slots,  *)
(* where the division by mem->area_nslabs is undefined: a trap ends the    *)
(* boot with an oops, the quotient 0 lets it go on.                        *)
(* One task then calls every entry point from either CPU, swiotlb_map with *)
(* either answer of dma_capable, swiotlb_alloc                             *)
(* also on a pool that is not marked for_alloc.                            *)
(***************************************************************************)
BootPoolBytes == {4 * IO_TLB_SIZE}
BootSizes == {IO_TLB_SIZE}
BootCmdlineNslabs == {IO_TLB_SEGSIZE}
\* an area count on the command line above the slots of the late pool
BootManyNareas == {2 * IO_TLB_SEGSIZE}

InitBoot ==
    /\ \E lockless \in BOOLEAN :
          \/ /\ mem = io_tlb_default_mem
             /\ swiotlb_lockless_mode = lockless
             /\ pc = [t \in Tasks |-> "idle"]
          \/ /\ \E size \in BootPoolBytes, na \in CmdlineNareas :
                   mem = swiotlb_init_late(PoolStart, size, na)
             /\ swiotlb_lockless_mode = lockless
             /\ pc = [t \in Tasks |-> "idle"]
          \/ /\ \E size \in BootPoolBytes, na \in BootManyNareas,
                   q \in DivideByZero :
                   /\ LateNslabs(size) < DefaultNareas(na)
                   /\ mem = swiotlb_init_io_tlb_mem_div0(
                                PoolStart, LateNslabs(size), FALSE,
                                DefaultNareas(na), q)
                   /\ pc = [t \in Tasks |->
                               IF q = "trap" THEN "oops" ELSE "idle"]
             /\ swiotlb_lockless_mode = lockless
          \/ /\ \E n \in BootCmdlineNslabs, na \in CmdlineNareas :
                   mem = swiotlb_init_remap(PoolStart, n, na)
             /\ swiotlb_lockless_mode =
                    swiotlb_init_remap_lockless(io_tlb_default_mem, NCpus,
                                                lockless)
             /\ pc = [t \in Tasks |-> "idle"]
          \/ /\ \E size \in RmemPoolBytes :
                   mem = rmem_swiotlb_device_init(PoolStart, size)
             /\ swiotlb_lockless_mode = lockless
             /\ pc = [t \in Tasks |-> "idle"]
    /\ dev = PlainDev
    /\ max_low_pfn = ULONG_MAX
    /\ orig_buf = ZeroBuf(OrigTop)
    /\ tlb_buf = ZeroBuf(mem.nslabs * IO_TLB_SIZE)
    /\ cpu = [t \in Tasks |-> 0]
    /\ loc = [t \in Tasks |-> NoLoc]
    /\ live = {}

NextBoot ==
    \E t \in {1} :
        \/ \E c \in Cpus, o \in ReqOrigAddrs, s \in BootSizes :
               swiotlb_tbl_map_single(t, c, o, s, s, 0)
        \/ \E c \in Cpus, o \in ReqOrigAddrs, s \in BootSizes :
               swiotlb_map(t, c, o, s)
        \/ \E c \in Cpus, capable \in BOOLEAN :
               swiotlb_map_dma_capable(t, c, capable)
        \/ \E c \in Cpus, s \in AllocSizes : swiotlb_alloc(t, c, s)
        \/ \E c \in Cpus, a \in live :
               swiotlb_tbl_unmap_single(t, c, a, DMA_TO_DEVICE, FALSE)
        \/ \E c \in Cpus, a \in live : swiotlb_free(t, c, a)
        \/ Step(t)

SpecBoot == InitBoot /\ [][NextBoot]_vars

(***************************************************************************)
(* Properties.                                                             *)
(***************************************************************************)
\* the run a task at label found is about to claim
FoundRun(t) ==
    loc[t].slot_index..(loc[t].slot_index + nr_slots(loc[t].alloc_size) - 1)

\* C1: no double allocation.  The unit ranges of any two live allocations
\* are disjoint, and a run is claimed only while each of its bitmap bits is
\* 1, in locked and in lockless mode and under every interleaving.
C1_NoDoubleAllocation ==
    /\ \A a, b \in live : a # b => ~Overlap(a, b)
    /\ \A t \in Tasks : pc[t] = "claiming" =>
           \A i \in FoundRun(t) : test_bit(mem, i)

\* C2: conservation.  For every area, outside the critical sections,
\* used + |free_slots| + |free_slots_from_other_cpu| = area_nslabs, also
\* while units released by another CPU wait for the owner's reclamation.
C2_Conservation ==
    \A a \in DOMAIN mem.areas :
        mem.areas[a].used + Len(mem.areas[a].free_slots) +
            Len(mem.areas[a].free_slots_from_other_cpu) = mem.area_nslabs

\* C3: bitmap/metadata agreement.  For every unit i, bitmap bit i is 1
\* exactly when slots[i].orig_addr is INVALID_PHYS_ADDR.
C3_BitmapAgreesWithOrigAddr ==
    \A i \in DOMAIN mem.slots :
        test_bit(mem, i) <=> (mem.slots[i].orig_addr = INVALID_PHYS_ADDR)

\* C4: segment non-crossing.  Every run swiotlb_do_find_slots finds, of n
\* units from start index s, has (s mod IO_TLB_SEGSIZE) + n <= IO_TLB_SEGSIZE.
C4_SegmentNonCrossing ==
    \A t \in Tasks : pc[t] = "claiming" =>
        (loc[t].slot_index % IO_TLB_SEGSIZE) + nr_slots(loc[t].alloc_size)
            <= IO_TLB_SEGSIZE

\* a two-unit run was found at the start of the second segment although the
\* last unit of the first segment is free: the search passed over it
C4_Witness ==
    \E t \in Tasks :
        /\ pc[t] = "claiming"
        /\ dev = PlainDev
        /\ nr_slots(loc[t].alloc_size) = 2
        /\ loc[t].slot_index = IO_TLB_SEGSIZE
        /\ test_bit(mem, IO_TLB_SEGSIZE - 1)

\* the bus addresses first..last lie between two multiples of mask + 1
SameSegment(first, last, mask) ==
    first \div (mask + 1) = last \div (mask + 1)

\* C5: boundary respected.  For a device with a finite segment-boundary
\* mask, also one with mask + 1 below IO_TLB_SEGSIZE units, the bus
\* addresses of a run that is found do not cross a multiple of mask + 1.
C5_BoundaryRespected ==
    \A t \in Tasks :
        pc[t] = "claiming" /\ dma_get_seg_boundary(dev) # ULONG_MAX =>
            SameSegment(slot_addr(mem.start, loc[t].slot_index),
                        slot_addr(mem.start, loc[t].slot_index +
                                  nr_slots(loc[t].alloc_size)) - 1,
                        dma_get_seg_boundary(dev))

\* the bounce address agrees with the original address on the mask's bits
Aligned(a, mask) == BitAnd(a.tlb_addr, mask) = BitAnd(a.orig_addr, mask)

\* C6: alignment honored.  Every mapping of a non-zero orig_addr for a
\* device with a non-zero min-align mask m returns a bounce address t with
\* (t & m) = (orig_addr & m), for the bits of m below and above IO_TLB_SIZE.
C6_AlignmentHonoredAnyDevice ==
    \A a \in live :
        /\ a.op = "map" /\ a.ready
        /\ a.orig_addr # 0
        /\ dma_get_min_align_mask(dev) # 0
        => Aligned(a, dma_get_min_align_mask(dev))

\* The extent of C6's failure: the alignment is honored for every device
\* whose min-align mask does not exceed its segment-boundary mask, where
\* tbl_dma_addr keeps the bits of mem->start that the search compares.
C6_AlignmentHonored ==
    \A a \in live :
        /\ a.op = "map" /\ a.ready
        /\ a.orig_addr # 0
        /\ dma_get_min_align_mask(dev) # 0
        /\ dma_get_min_align_mask(dev) <= dma_get_seg_boundary(dev)
        => Aligned(a, dma_get_min_align_mask(dev))

\* a mapping whose original address has masked bits both below and above
\* IO_TLB_SIZE, returned with the same bits
C6_Witness ==
    \E a \in live :
        /\ a.op = "map" /\ a.ready
        /\ dma_get_min_align_mask(dev) <= dma_get_seg_boundary(dev)
        /\ BitAnd(a.orig_addr, dma_get_min_align_mask(dev)) > IO_TLB_SIZE
        /\ BitAnd(a.orig_addr, IO_TLB_SIZE - 1) # 0
        /\ Aligned(a, dma_get_min_align_mask(dev))

\* the pool holds, byte for byte, what the original buffer of a holds
Synced(a) ==
    \A k \in 0..(a.size - 1) :
        tlb_buf[a.tlb_addr - mem.start + k] = orig_buf[a.orig_addr + k]

\* a step copied the whole of a's original buffer to the pool
CopiedToDevice(a) == orig_buf' = orig_buf /\ Synced(a)'
\* a step copied the whole of a's bounce buffer to the original buffer
CopiedToCpu(a) == tlb_buf' = tlb_buf /\ Synced(a)'

\* C7: round trip.  For every size from 1 byte to swiotlb_max_mapping_size,
\* the map and every sync_for_device over the whole mapping leave the pool
\* holding byte for byte the data of the original buffer, and every
\* sync_for_cpu over the whole mapping and the unmap leave the original
\* buffer holding byte for byte the data of the pool.
C7_RoundTrip ==
    [][\A t \in Tasks :
        /\ MapFill(t) => \A a \in live' \ live : CopiedToDevice(a)
        /\ \A c \in Cpus, a \in live, dir \in CopyDirs \ {DMA_FROM_DEVICE} :
               a.ready /\ swiotlb_sync_single_for_device(t, c, a.tlb_addr,
                                                         a.size, dir)
                   => CopiedToDevice(a)
        /\ \A c \in Cpus, a \in live, dir \in CopyDirs \ {DMA_TO_DEVICE} :
               a.ready /\ swiotlb_sync_single_for_cpu(t, c, a.tlb_addr,
                                                      a.size, dir)
                   => CopiedToCpu(a)
        /\ \A c \in Cpus, a \in live, dir \in CopyDirs \ {DMA_TO_DEVICE} :
               swiotlb_tbl_unmap_single(t, c, a, dir, FALSE)
                   => CopiedToCpu(a)]_vars

\* a mapping of the largest size whose original buffer is in highmem and
\* starts inside a slot has been unmapped after the device wrote it: the
\* original buffer holds the device's data
C7_Witness ==
    \E t \in Tasks :
        /\ pc[t] = "rel_lock"
        /\ loc[t].op = "unmap"
        /\ dma_get_min_align_mask(dev) # 0
        /\ max_low_pfn # ULONG_MAX
        /\ BitAnd(loc[t].tlb_addr, IO_TLB_SIZE - 1) # 0
        /\ \A k \in 0..(swiotlb_max_mapping_size(dev) - 1) :
               /\ orig_buf[2 * PAGE_SIZE - 3 + k] =
                      tlb_buf[loc[t].tlb_addr - mem.start + k]
               /\ orig_buf[2 * PAGE_SIZE - 3 + k] =
                      DevData(loc[t].tlb_addr - mem.start + k)

\* the slots waiting on some free_slots_from_other_cpu list
Queued ==
    {i \in DOMAIN mem.slots :
        \E a \in DOMAIN mem.areas :
            OnList(i, mem.areas[a].free_slots_from_other_cpu)}
\* the slots on some free_slots list
Listed ==
    {i \in DOMAIN mem.slots :
        \E a \in DOMAIN mem.areas : OnList(i, mem.areas[a].free_slots)}

\* C8: lockless cross-CPU release visibility.  In lockless mode a release
\* that runs on another CPU than the one that allocated the units puts them
\* on free_slots_from_other_cpu of the allocating CPU's area and on no
\* free_slots list; no search returns a unit that waits there; and a CPU
\* reclaims only after one search of its own area has failed.
C8_CrossCpuRelease ==
    [][swiotlb_lockless_mode =>
        \A t \in Tasks :
            /\ ReleaseSlots(t) /\ cpu[t] # loc[t].acpu =>
                   \A i \in Releasing(t) :
                       /\ OnList(i,
                            mem'.areas[BitAnd(loc[t].acpu, mem.nareas - 1)]
                                .free_slots_from_other_cpu)
                       /\ i \notin Listed'
            /\ FindSearch(t) /\ pc'[t] = "claiming" =>
                   FoundRun(t)' \cap Queued = {}
            /\ Reclaim(t) =>
                   loc[t].tried = <<BitAnd(cpu[t], mem.nareas - 1)>>]_vars

\* the areas in the order swiotlb_find_slots tries them from area start
WrapOrder(start) ==
    [k \in 1..mem.nareas |-> (start + k - 1) % mem.nareas]
IsPrefix(p, q) == Len(p) <= Len(q) /\ p = SubSeq(q, 1, Len(p))

\* C9: fall-over in locked mode.  In non-lockless mode swiotlb_find_slots
\* tries the areas one after the other from area cpu & (nareas - 1),
\* wrapping around, each at most once; it returns the first success, and it
\* returns -1 only when it has tried every area exactly once.
C9_FallOver ==
    [][~swiotlb_lockless_mode =>
        \A t \in Tasks : FindSearch(t) =>
            LET order == WrapOrder(BitAnd(loc[t].acpu, mem.nareas - 1)) IN
            /\ pc'[t] = "claiming" =>
                   /\ IsPrefix(loc'[t].tried, order)
                   /\ loc'[t].tried[Len(loc'[t].tried)] = loc[t].i
                   /\ loc'[t].slot_index =
                          SearchArea(mem, dev, loc[t].i, loc[t].orig_addr,
                                     loc[t].alloc_size,
                                     loc[t].alloc_align_mask)
            /\ pc'[t] = "do_find" =>
                   /\ Len(loc'[t].tried) < mem.nareas
                   /\ IsPrefix(Append(loc'[t].tried, loc'[t].i), order)
            /\ pc'[t] = "idle" => Append(loc[t].tried, loc[t].i) = order]_vars

\* a call that found nothing in its home area is about to claim a run of
\* another area
C9_Witness ==
    \E t \in Tasks :
        /\ ~swiotlb_lockless_mode
        /\ pc[t] = "claiming"
        /\ loc[t].i # loc[t].start
        /\ loc[t].tried = <<loc[t].start, loc[t].i>>

\* task t spins on an area lock that another context holds
LockWait(t) ==
    \/ pc[t] = "do_find" /\ loc[t].i \in DOMAIN mem.areas
                         /\ ~swiotlb_lock_ready(loc[t].i)
    \/ pc[t] = "reclaim" /\ ~LockFree(loc[t].i)
    \/ pc[t] = "rel_lock" /\ ~LockFree(loc[t].aindex)
                          /\ ~(swiotlb_lockless_mode /\
                               loc[t].aindex = loc[t].ncpu)
\* the area locks task t holds
LocksHeld(t) == {a \in DOMAIN mem.areas : mem.areas[a].lock = t}
\* task t is inside a call
InCall(t) == pc[t] # "idle"

\* what C10 says of every state: a call has searched at most nareas areas
\* in locked mode and at most twice in lockless mode, a context holds at
\* most one area lock, a lock is held only by a context that is about to
\* claim its run and give the lock back, and not all contexts wait on locks
C10_Bounded ==
    /\ \A t \in Tasks :
           /\ Len(loc[t].tried) <=
                  (IF swiotlb_lockless_mode THEN 2 ELSE mem.nareas)
           /\ Cardinality(LocksHeld(t)) <= 1
           /\ LocksHeld(t) # {} => pc[t] = "claiming"
    /\ \E t \in Tasks : ~LockWait(t)

\* C10: allocate never blocks and the allocator cannot deadlock.  Every
\* call searches a bounded number of areas, holds at most one area lock,
\* and, the lock being handed out fairly, returns; no state has all
\* contexts waiting on locks.
C10_NoDeadlock ==
    /\ []C10_Bounded
    /\ \A t \in Tasks : InCall(t) ~> ~InCall(t)

\* one context holds an area lock at label found while another spins on
\* that lock
C10_Witness ==
    \E t, u \in Tasks :
        /\ t # u
        /\ pc[t] = "claiming" /\ LocksHeld(t) # {}
        /\ LockWait(u)

\* C11: an inert pool fails fast.  On a pool that was never initialised
\* (nslabs = 0 and nareas = 0) every allocation entry point returns its
\* failure value: no call reaches a BUG_ON, and the pool stays as it was.
C11_InertFailsFast ==
    mem.nslabs = 0 /\ mem.nareas = 0 =>
        /\ \A t \in Tasks : pc[t] # "BUG"
        /\ mem = io_tlb_default_mem

\* the bookkeeping of the pool: the bitmap, every slot's orig_addr and
\* alloc_size, every free list and every area's used count
PoolState == <<mem.bitmap, mem.slots, mem.areas>>

\* C12: caller constraint violations never change pool state.  A
\* swiotlb_tbl_map_single with mapping_size > alloc_size returns at once
\* and starts no search, and every sync_for_device and sync_for_cpu, at any
\* pool address and for any length (before the mapping start and past the
\* end of the allocation included), returns; each leaves the bitmap, the
\* slots' orig_addr and alloc_size, the free lists and the used counts as
\* they were.
C12_ViolationsKeepPoolState ==
    [][\/ /\ PoolState' = PoolState /\ live' = live
          /\ \A t \in Tasks : pc'[t] = "idle"
       \/ \A t \in Tasks, c \in Cpus :
           /\ \A o \in SyncOrigAddrs, ms \in SyncMapSizes,
                 as \in SyncAllocSizes, am \in SyncAllocAlignMasks :
                  \/ /\ PoolState' = PoolState
                     /\ pc'[t] = "idle" /\ live' = live
                  \/ ~(ms > as /\
                       swiotlb_tbl_map_single(t, c, o, ms, as, am))
           /\ \A x \in SyncAddrs, n \in SyncLens, dir \in CopyDirs :
                  \/ PoolState' = PoolState /\ pc'[t] = "idle"
                  \/ /\ ~swiotlb_sync_single_for_device(t, c, x, n, dir)
                     /\ ~swiotlb_sync_single_for_cpu(t, c, x, n, dir)
      ]_vars

\* a sync_for_device for more bytes than the allocation holds has run on a
\* one-byte mapping of a two-slot allocation: the pool holds the original
\* buffer's data up to the end of the allocation, and the pool state still
\* describes the one allocation
C12_Witness ==
    \E a \in live :
        /\ a.ready /\ a.size = 1
        /\ mem.slots[a.index].alloc_size > IO_TLB_SIZE
        /\ \A k \in 0..IO_TLB_SIZE :
               tlb_buf[a.tlb_addr - mem.start + k] = orig_buf[a.orig_addr + k]
        /\ mem.areas[0].used = a.nslots

\* task t is inside swiotlb_find_slots or swiotlb_release_slots
InAllocator(t) == pc[t] \in {"do_find", "claiming", "reclaim", "rel_lock"}

\* C13: lockless mode applicability.  Whenever an allocate or a release
\* on a pool that was brought up runs under the lockless discipline, the
\* pool's area count equals the number of CPUs, for the default pool of
\* swiotlb_init_remap and of swiotlb_init_late and for a restricted pool.
C13_LocklessApplicable ==
    \A t \in Tasks :
        swiotlb_lockless_mode /\ mem.nslabs # 0 /\ InAllocator(t)
            => mem.nareas = NCpus

\* the index range of area a
AreaRange(a) == (a * mem.area_nslabs)..((a + 1) * mem.area_nslabs - 1)

\* C14: no cross-area mutation.  Every run swiotlb_do_find_slots finds on
\* area a lies inside a's index range, for every geometry the
\* initialisation accepts, so the claim under a's lock changes no bit,
\* slot or list node of another area.
C14_RunInsideArea ==
    \A t \in Tasks :
        pc[t] = "claiming" => FoundRun(t) \subseteq AreaRange(loc[t].i)

\* C15: swiotlb_max_mapping_size.  It returns IO_TLB_SIZE * IO_TLB_SEGSIZE
\* for a min-align mask of 0 and IO_TLB_SIZE * IO_TLB_SEGSIZE -
\* roundup(min_align_mask, IO_TLB_SIZE) otherwise, and every request of at
\* most that size, at every original address, needs at most IO_TLB_SEGSIZE
\* slots with its alignment offset, in the arithmetic and in the searches
\* the mappings start.  The devices are those whose min-align mask is
\* smaller than a segment.
C15_MaxMappingSize ==
    LET m == dma_get_min_align_mask(dev)
        max == swiotlb_max_mapping_size(dev)
    IN  /\ m = 0 => max = IO_TLB_SIZE * IO_TLB_SEGSIZE
        /\ m # 0 => max = IO_TLB_SIZE * IO_TLB_SEGSIZE -
                            IO_TLB_SIZE * ((m + IO_TLB_SIZE - 1) \div IO_TLB_SIZE)
        /\ \A size \in 1..max, orig_addr \in 0..(OrigTop - 1) :
               nr_slots(size + BitAnd(BitAnd(orig_addr, m), IO_TLB_SIZE - 1))
                   <= IO_TLB_SEGSIZE
        /\ \A t \in Tasks :
               pc[t] \in {"do_find", "claiming"} /\ loc[t].mapping_size <= max
                   => nr_slots(loc[t].alloc_size) <= IO_TLB_SEGSIZE

\* a mapping of the maximum size whose original address has an alignment
\* offset has found a run of IO_TLB_SEGSIZE slots
C15_Witness ==
    \E t \in Tasks :
        /\ pc[t] = "claiming"
        /\ dma_get_min_align_mask(dev) # 0
        /\ loc[t].offset # 0
        /\ loc[t].mapping_size = swiotlb_max_mapping_size(dev)
        /\ nr_slots(loc[t].alloc_size) = IO_TLB_SEGSIZE

\* C16: per-unit state machine.  A unit only moves FREE -> ALLOCATED, by
\* the claim of a successful search whose run includes it, and
\* ALLOCATED -> FREE, by the release of the run that holds it or, in
\* lockless mode, by the owner's reclamation of a queued unit: a bit is
\* cleared or set by no other step, a search claims only units that are
\* FREE, and a release frees only units that are ALLOCATED.
C16_UnitStateMachine ==
    [][\A i \in DOMAIN mem.slots :
        /\ test_bit(mem, i) /\ ~test_bit(mem, i)' =>
               \E t \in Tasks : FindClaim(t) /\ i \in FoundRun(t)
        /\ ~test_bit(mem, i) /\ test_bit(mem, i)' =>
               \E t \in Tasks :
                   \/ ReleaseSlots(t) /\ i \in Releasing(t)
                   \/ /\ Reclaim(t)
                      /\ OnList(i, mem.areas[loc[t].i]
                                       .free_slots_from_other_cpu)
        /\ \A t \in Tasks :
               /\ FindClaim(t) /\ i \in FoundRun(t) => test_bit(mem, i)
               /\ ReleaseSlots(t) /\ i \in Releasing(t) => ~test_bit(mem, i)
      ]_vars

\* the caller's call of swiotlb_release_slots has taken the path that
\* frees the run: locked mode, or the area's own CPU in lockless mode
OwnerPath(t) ==
    pc[t] = "rel_lock" /\
    ~(swiotlb_lockless_mode /\ loc[t].aindex # loc[t].ncpu)

\* C17: release postcondition.  swiotlb_release_slots, given the address
\* that the map or the alloc of a live allocation returned, recomputes the
\* allocation's first index and its number of units, for every alignment
\* offset; on the path that frees the run every unit of the run then has
\* its bit set, orig_addr INVALID_PHYS_ADDR, alloc_size 0 and is on the
\* free_slots list of the area the index lies in, that area's used count
\* is smaller by the number of units, and no other unit, list or area has
\* changed.
C17_ReleasePostcondition ==
    [][\A t \in Tasks :
        /\ \A a \in live :
               pc[t] = "idle" /\ pc'[t] # "idle" /\ a \notin live' =>
                   /\ pc'[t] = "rel_lock"
                   /\ loc'[t].index = a.index
                   /\ loc'[t].nslots = a.nslots
                   /\ loc'[t].aindex = a.index \div mem.area_nslabs
        /\ OwnerPath(t) /\ ReleaseSlots(t) =>
               LET l == loc[t]
                   run == l.index..(l.index + l.nslots - 1)
                   old == mem.areas[l.aindex]
                   new == mem'.areas[l.aindex]
               IN  /\ \A i \in run :
                          /\ test_bit(mem', i)
                          /\ mem'.slots[i] =
                                 [orig_addr |-> INVALID_PHYS_ADDR,
                                  alloc_size |-> 0]
                          /\ OnList(i, new.free_slots)
                   /\ old.used >= l.nslots
                   /\ new.used = old.used - l.nslots
                   /\ SelectSeq(new.free_slots, LAMBDA x : x \notin run) =
                          old.free_slots
                   /\ new.free_slots_from_other_cpu =
                          old.free_slots_from_other_cpu
                   /\ \A i \in DOMAIN mem.slots \ run :
                          /\ mem'.slots[i] = mem.slots[i]
                          /\ mem'.bitmap[i] = mem.bitmap[i]
                   /\ \A b \in DOMAIN mem.areas \ {l.aindex} :
                          mem'.areas[b] = mem.areas[b]
      ]_vars

\* the pool bytes a live mapping stages its data in; the callers of these
\* specifications map with alloc_size = mapping_size
StagingRange(a) == a.tlb_addr..(a.tlb_addr + a.size - 1)
UnitBytes(a) ==
    slot_addr(mem.start, a.index)..
        (slot_addr(mem.start, a.index + a.nslots) - 1)
Mapped(a) == a \in live /\ a.ready /\ a.op = "map"

\* C18: disjoint staging bytes.  The bytes tlb_addr .. tlb_addr +
\* alloc_size - 1 of every mapping that swiotlb_tbl_map_single has
\* returned lie inside the pool and inside the units claimed for it, and
\* the staging bytes of two live mappings are disjoint.
C18_DisjointStaging ==
    /\ \A a \in live :
           Mapped(a) =>
               /\ StagingRange(a) \subseteq mem.start..(mem.end - 1)
               /\ StagingRange(a) \subseteq UnitBytes(a)
    /\ \A a, b \in live :
           Mapped(a) /\ Mapped(b) /\ a # b =>
               StagingRange(a) \cap StagingRange(b) = {}

\* C19: allocate postcondition and frame.  A swiotlb_do_find_slots on area
\* a that returns slot s for n units clears the bits s .. s+n-1, which
\* were set, takes exactly those units off a's free_slots, records their
\* alloc_size and raises a's used count by n; every other bit, every
\* other slot's metadata, a's queue and every other area are unchanged.
\* A search that fails changes nothing in the pool.
C19_AllocatePostcondition ==
    [][\A t \in Tasks :
        /\ FindClaim(t) /\ pc'[t] # "oops" =>
               LET l == loc[t]
                   run == FoundRun(t)
                   old == mem.areas[l.i]
                   new == mem'.areas[l.i]
               IN  /\ \A i \in run :
                          /\ test_bit(mem, i) /\ ~test_bit(mem', i)
                          /\ OnList(i, old.free_slots)
                          /\ mem'.slots[i] =
                                 [mem.slots[i] EXCEPT !.alloc_size =
                                     SlotAllocSize(l.alloc_size, l.offset,
                                                   i - l.slot_index)]
                   /\ new.free_slots =
                          SelectSeq(old.free_slots, LAMBDA x : x \notin run)
                   /\ Len(new.free_slots) =
                          Len(old.free_slots) - Cardinality(run)
                   /\ new.used = old.used + Cardinality(run)
                   /\ new.free_slots_from_other_cpu =
                          old.free_slots_from_other_cpu
                   /\ \A i \in DOMAIN mem.slots \ run :
                          /\ mem'.slots[i] = mem.slots[i]
                          /\ mem'.bitmap[i] = mem.bitmap[i]
                   /\ \A b \in DOMAIN mem.areas \ {l.i} :
                          mem'.areas[b] = mem.areas[b]
        /\ FindSearch(t) /\ pc'[t] # "claiming" => PoolState' = PoolState
      ]_vars

\* C20: per-unit reserved size.  For a mapping of S bytes with alignment
\* offset o the search is asked for S + o bytes and claims
\* n = nr_slots(S + o) units; the value alloc_size - (offset + k *
\* IO_TLB_SIZE) recorded for the k-th unit does not wrap below zero, lies
\* in 1 .. S and is smaller than the value of the unit before it, for
\* every k in 0 .. n-1.
C20_ReservedSize ==
    [][\A t \in Tasks :
        FindClaim(t) /\ loc[t].op = "map" /\ pc'[t] # "oops" =>
            LET l == loc[t]
                S == l.alloc_size - l.offset
                v(k) == l.alloc_size - (l.offset + k * IO_TLB_SIZE)
            IN  \A k \in 0..(nr_slots(l.alloc_size) - 1) :
                    /\ v(k) >= 1 /\ v(k) <= S
                    /\ mem'.slots[l.slot_index + k].alloc_size = v(k)
                    /\ k > 0 =>
                           mem'.slots[l.slot_index + k].alloc_size <
                               mem'.slots[l.slot_index + k - 1].alloc_size
      ]_vars

\* the pairs <<original address, pool offset>> of a copy of len bytes that
\* starts d bytes into mapping a, whose allocation holds S bytes
ExpectedPairs(a, S, d, len) ==
    {<<a.orig_addr + d + j, a.tlb_addr - mem.start + d + j>> :
        j \in 0..((IF len < S - d THEN len ELSE S - d) - 1)}

\* C21: partial-range sync translation.  For every live mapping of S bytes
\* and every offset d with 0 <= d < S, in the first or in a later unit of
\* the run and with or without a min-align offset, the swiotlb_bounce of a
\* sync at tlb_addr + d for len bytes copies exactly min(len, S - d) bytes
\* between pool address tlb_addr + d and original address orig_addr + d.
C21_PartialSync ==
    \A a \in live :
        Mapped(a) =>
            LET S == mem.slots[a.index].alloc_size IN
            \A d \in 0..(S - 1), len \in SyncLens :
                BouncePairs(mem, dev, max_low_pfn, a.tlb_addr + d, len) =
                    ExpectedPairs(a, S, d, len)

\* the list is in ascending index order, as swiotlb_init_io_tlb_mem builds it
Ascending(list) == \A j, k \in 1..Len(list) : j < k => list[j] < list[k]

\* the request of task t passes every check of the walk at slot i
Fits(t, i) ==
    SlotFits(mem, dev, i, loc[t].orig_addr, loc[t].alloc_size,
             loc[t].alloc_align_mask)

\* C22: first-fit.  swiotlb_do_find_slots returns the first unit of the
\* area's free_slots, in list order, that passes all the checks, and
\* returns not-found only if no unit on the list passes; on a list in
\* ascending order the unit returned is the lowest index that passes.
C22_FirstFit ==
    [][\A t \in Tasks :
        FindSearch(t) /\ pc'[t] # "BUG" =>
            LET list == mem.areas[loc[t].i].free_slots IN
            IF pc'[t] = "claiming"
            THEN /\ \E k \in 1..Len(list) :
                        /\ list[k] = loc'[t].slot_index
                        /\ Fits(t, list[k])
                        /\ \A j \in 1..(k - 1) : ~Fits(t, list[j])
                 /\ Ascending(list) =>
                        \A i \in 0..(loc'[t].slot_index - 1) :
                            ~(OnList(i, list) /\ Fits(t, i))
            ELSE \A k \in 1..Len(list) : ~Fits(t, list[k])
      ]_vars

\* two-unit requests have taken slots 0 and 2 of a fresh area, and the
\* search for a third two-unit run would return slot 4
C22_Witness ==
    /\ \E a, b \in live :
           /\ Mapped(a) /\ a.index = 0 /\ a.nslots = 2
           /\ Mapped(b) /\ b.index = 2 /\ b.nslots = 2
    /\ mem.areas[0].free_slots = <<4, 5>>
    /\ SearchArea(mem, dev, 0, PAGE_SIZE, IO_TLB_SIZE + 1, 0) = 4

\* nothing of the pool is allocated
AllFree ==
    /\ \A i \in DOMAIN mem.bitmap : mem.bitmap[i]
    /\ \A a \in DOMAIN mem.areas :
           mem.areas[a].used = 0 /\
           mem.areas[a].free_slots_from_other_cpu = <<>>

\* C23: page alignment for large requests.  Every search that succeeds
\* for a request of at least PAGE_SIZE bytes returns a unit whose address
\* is page-aligned, for every pool base and boundary mask; and a min-align
\* mask with bits between IO_TLB_SIZE and PAGE_SIZE does not by itself
\* make such a request unsatisfiable: on a pool that is entirely free a
\* request of at most one segment, for a device without a segment
\* boundary, succeeds, whatever the original address's bits under the mask
\* are.
C23_PageAlignedLargeRequests ==
    [][\A t \in Tasks :
        FindSearch(t) /\ loc[t].alloc_size >= PAGE_SIZE =>
            /\ pc'[t] = "claiming" =>
                   BitAnd(slot_addr(mem.start, loc'[t].slot_index),
                          PAGE_SIZE - 1) = 0
            /\ /\ AllFree
               /\ dma_get_min_align_mask(dev) < PAGE_SIZE
               /\ dma_get_seg_boundary(dev) = ULONG_MAX
               /\ nr_slots(loc[t].alloc_size) <= IO_TLB_SEGSIZE
               => pc'[t] = "claiming"
      ]_vars

\* the bus address the search computes for slot i
SlotDmaAddr(i) ==
    slot_addr(BitAnd(mem.start, dma_get_seg_boundary(dev)), i)

Released(i) ==
    /\ \A a \in live : i \notin Units(a)
    /\ \A u \in Tasks : i \notin Releasing(u)

\* C25: a sync on a released unit is a no-op.  Once the release of an
\* allocation (unmap or free) has returned, the swiotlb_bounce of a
\* sync_for_device or sync_for_cpu at any of its former bounce addresses
\* copies no byte, in locked and in lockless mode, also after a release on
\* another CPU that the owner has not yet reclaimed.
C25_SyncOnReleasedUnit ==
    \A i \in DOMAIN mem.slots :
        Released(i) =>
            \A off \in 0..(IO_TLB_SIZE - 1), len \in {1, IO_TLB_SIZE + 1} :
                BouncePairs(mem, dev, max_low_pfn,
                            slot_addr(mem.start, i) + off, len) = {}

\* what swiotlb_bounce reads for a pool address x: the unit, its recorded
\* orig_addr and alloc_size, the offset of x in the unit and the alignment
\* offset of the recorded orig_addr
BounceIndex(x) == (x - mem.start) \div IO_TLB_SIZE
BounceTlbOffset(x) == BitAnd(x, IO_TLB_SIZE - 1)
BounceOrigOffset(x) ==
    swiotlb_align_offset(dev, mem.slots[BounceIndex(x)].orig_addr)

\* C26: access before the mapping start.  A swiotlb_bounce at a pool
\* address whose offset in its unit is smaller than the alignment offset
\* of the unit's recorded original address copies no byte, for every
\* length.
C26_AccessBeforeStart ==
    \A x \in SyncAddrs, len \in SyncLens :
        BounceTlbOffset(x) < BounceOrigOffset(x) =>
            BouncePairs(mem, dev, max_low_pfn, x, len) = {}

\* a two-unit mapping with a min-align offset is live: the first byte of
\* its second unit has a valid orig_addr and lies before that unit's
\* alignment offset
C26_Witness ==
    \E a \in live :
        /\ Mapped(a) /\ a.nslots = 2
        /\ a.tlb_addr > slot_addr(mem.start, a.index)
        /\ mem.slots[a.index + 1].orig_addr # INVALID_PHYS_ADDR
        /\ BounceTlbOffset(slot_addr(mem.start, a.index + 1)) <
               BounceOrigOffset(slot_addr(mem.start, a.index + 1))

\* the bytes still valid from pool address x on: the unit's alloc_size
\* minus the offset of x past the mapping's start in the unit
BounceRemaining(x) ==
    mem.slots[BounceIndex(x)].alloc_size -
        (BounceTlbOffset(x) - BounceOrigOffset(x))

\* C27: overflow clamp.  A swiotlb_bounce that is not refused copies
\* min(len, remaining) bytes, so a length beyond what remains valid from
\* the addressed position is clamped and the clamped range is still
\* copied, from the addressed position on; and no call copies more bytes
\* than remain.
C27_OverflowClamp ==
    \A x \in SyncAddrs, len \in SyncLens :
        LET k == BounceIndex(x)
            off == BounceTlbOffset(x) - BounceOrigOffset(x)
            rem == BounceRemaining(x)
            pairs == BouncePairs(mem, dev, max_low_pfn, x, len)
        IN  /\ mem.slots[k].orig_addr # INVALID_PHYS_ADDR /\ off >= 0 /\
               rem >= 0 =>
                   pairs =
                       {<<mem.slots[k].orig_addr + off + j,
                          x - mem.start + j>> :
                            j \in 0..((IF len > rem THEN rem ELSE len) - 1)}
            /\ pairs # {} => Cardinality(pairs) <= rem

\* a one-byte mapping of a two-unit allocation after a sync_for_device
\* for more bytes than the allocation holds: the call is clamped to the
\* bytes that remain and those bytes are in the pool
C27_Witness ==
    \E a \in live :
        /\ Mapped(a) /\ a.size = 1
        /\ BounceRemaining(a.tlb_addr) = IO_TLB_SIZE + 1
        /\ Cardinality(BouncePairs(mem, dev, max_low_pfn, a.tlb_addr,
                                   3 * IO_TLB_SIZE + 1)) = IO_TLB_SIZE + 1
        /\ \A p \in BouncePairs(mem, dev, max_low_pfn, a.tlb_addr,
                                 3 * IO_TLB_SIZE + 1) :
               tlb_buf[p[2]] = orig_buf[p[1]]

\* the units queued for the area's owner by releases on other CPUs
QueuedUnits(a) ==
    {mem.areas[a].free_slots_from_other_cpu[k] :
        k \in 1..Len(mem.areas[a].free_slots_from_other_cpu)}

\* C28: reclamation.  In lockless mode, when and only when the first
\* search of the caller's own area fails, swiotlb_find_slots_lockless
\* takes the area lock, moves every unit of free_slots_from_other_cpu to
\* free_slots with its bit set, orig_addr INVALID_PHYS_ADDR and alloc_size
\* 0, lowers used by one per unit, leaves the queue empty and the lock
\* free and changes nothing else; it then searches the same area once
\* more and returns whatever that search returns.
C28_Reclamation ==
    [][\A t \in Tasks :
        /\ pc'[t] = "reclaim" /\ pc[t] # "reclaim" =>
               /\ swiotlb_lockless_mode /\ FindSearch(t)
               /\ ~loc[t].second /\ loc[t].i = loc[t].start
        /\ FindSearch(t) /\ swiotlb_lockless_mode /\
           pc'[t] \notin {"claiming", "BUG"} =>
               IF loc[t].second THEN pc'[t] = "idle"
               ELSE pc'[t] = "reclaim"
        /\ Reclaim(t) =>
               LET ar == loc[t].i
                   q == QueuedUnits(ar)
                   old == mem.areas[ar]
                   new == mem'.areas[ar]
               IN  /\ swiotlb_lockless_mode /\ ar = loc[t].start
                   /\ old.lock = 0 /\ new.lock = 0
                   /\ \A i \in q :
                          /\ test_bit(mem', i)
                          /\ mem'.slots[i] =
                                 [orig_addr |-> INVALID_PHYS_ADDR,
                                  alloc_size |-> 0]
                          /\ OnList(i, new.free_slots)
                   /\ new.free_slots_from_other_cpu = <<>>
                   /\ new.used = ULong(old.used - Cardinality(q))
                   /\ SelectSeq(new.free_slots, LAMBDA x : x \notin q) =
                          old.free_slots
                   /\ Len(new.free_slots) =
                          Len(old.free_slots) + Cardinality(q)
                   /\ \A i \in DOMAIN mem.slots \ q :
                          /\ mem'.slots[i] = mem.slots[i]
                          /\ mem'.bitmap[i] = mem.bitmap[i]
                   /\ \A b \in DOMAIN mem.areas \ {ar} :
                          mem'.areas[b] = mem.areas[b]
                   /\ pc'[t] = "do_find" /\ loc'[t].second
                   /\ loc'[t].i = ar
      ]_vars

\* Where C28 does hold: the owner's first search has failed on an area
\* whose units were all queued by another CPU; the reclamation has moved
\* them to free_slots, last queued first, and the second search is about
\* to run
C28_Witness ==
    \E t \in Tasks :
        /\ swiotlb_lockless_mode /\ mem.nareas = NCpus
        /\ pc[t] = "do_find" /\ loc[t].second
        /\ mem.areas[loc[t].i].used = 0
        /\ mem.areas[loc[t].i].free_slots_from_other_cpu = <<>>
        /\ Len(mem.areas[loc[t].i].free_slots) = mem.area_nslabs
        /\ ~Ascending(mem.areas[loc[t].i].free_slots)

\* the area of the CPU a call was entered on
OwnArea(t) == BitAnd(loc[t].acpu, mem.nareas - 1)

\* C29: lockless own-area only.  In lockless mode a call entered on CPU c
\* searches only area c & (nareas - 1), every unit of the run it claims
\* belongs to that area, and when the second search of that area fails the
\* call returns not-found, whatever is free in the other areas.
C29_LocklessOwnArea ==
    [][swiotlb_lockless_mode =>
        \A t \in Tasks :
            /\ FindSearch(t) /\ pc'[t] # "BUG" =>
                   /\ loc[t].i = OwnArea(t)
                   /\ pc'[t] \in {"claiming", "reclaim", "idle"}
                   /\ pc'[t] = "reclaim" => loc'[t].i = OwnArea(t)
                   /\ loc[t].second /\ pc'[t] # "claiming" => pc'[t] = "idle"
            /\ Reclaim(t) => loc[t].i = OwnArea(t) /\ loc'[t].i = OwnArea(t)
            /\ FindClaim(t) =>
                   /\ loc[t].i = OwnArea(t)
                   /\ FoundRun(t) \subseteq AreaRange(OwnArea(t))
      ]_vars

\* the pool's bookkeeping as the claim describes it after initialisation
InitialPool(m) ==
    /\ \A i \in 0..(m.nslabs - 1) :
           /\ test_bit(m, i)
           /\ m.slots[i].orig_addr = INVALID_PHYS_ADDR
           /\ m.slots[i].alloc_size = 0
           /\ \E a \in DOMAIN m.areas :
                  /\ a * m.area_nslabs <= i /\ i < (a + 1) * m.area_nslabs
                  /\ \E k \in DOMAIN m.areas[a].free_slots :
                         m.areas[a].free_slots[k] = i
           /\ Cardinality({<<a, k>> \in
                   UNION {{a} \X DOMAIN m.areas[a].free_slots :
                              a \in DOMAIN m.areas} :
                   m.areas[a].free_slots[k] = i}) = 1
    /\ \A a \in DOMAIN m.areas :
           /\ m.areas[a].used = 0
           /\ m.areas[a].free_slots_from_other_cpu = <<>>
           /\ \A j, k \in DOMAIN m.areas[a].free_slots :
                  j < k => m.areas[a].free_slots[j] < m.areas[a].free_slots[k]

\* C30: initial state.  After swiotlb_init_io_tlb_mem(nslabs, nareas) every
\* unit i < nslabs has its bitmap bit set, orig_addr = INVALID_PHYS_ADDR and
\* alloc_size = 0, and is on the free_slots list of exactly one existing
\* area, the area i / area_nslabs, in ascending index order; every area has
\* used = 0 and an empty free_slots_from_other_cpu.  This is so for every
\* (nslabs, nareas) pair an initialisation path passes, nslabs < nareas
\* included.  The formula speaks of the state the initialisation leaves:
\* the first state of every behaviour.
C30_InitialState == InitialPool(mem) /\ [][TRUE]_vars

\* C31: area geometry.  Every pool brought online, by swiotlb_init_remap,
\* by swiotlb_init_late or as a restricted pool, has a power of two as
\* nareas, an area_nslabs that is a positive multiple of IO_TLB_SEGSIZE, and
\* nareas * area_nslabs = nslabs; and after swiotlb_adjust_nareas
\* default_nslabs is a power of two of at least IO_TLB_SEGSIZE *
\* default_nareas.
C31_AreaGeometry ==
    /\ mem.nslabs # 0 =>
           /\ is_power_of_2(mem.nareas)
           /\ mem.area_nslabs > 0
           /\ mem.area_nslabs % IO_TLB_SEGSIZE = 0
           /\ mem.nareas * mem.area_nslabs = mem.nslabs
    /\ \A n \in BootCmdlineNslabs, na \in CmdlineNareas \cup BootManyNareas :
           /\ is_power_of_2(DefaultNslabs(n, na))
           /\ DefaultNslabs(n, na) >= IO_TLB_SEGSIZE * DefaultNareas(na)

\* task u is inside the critical section of swiotlb_do_find_slots on area a
InCritical(u, a) == pc[u] = "claiming" /\ loc[u].i = a

\* C32: per-area mutual exclusion.  No two contexts are at once inside
\* code that reads or writes the same area's free_slots, bitmap bits or
\* used counter: no two are between search and claim on one area, and no
\* owner release and no reclamation of an area runs while another context
\* is between search and claim on it.
C32_AreaMutualExclusion ==
    [][\A t \in Tasks : \A u \in Tasks \ {t} :
          /\ \A a \in DOMAIN mem.areas : ~(InCritical(t, a) /\ InCritical(u, a))
          /\ ReleaseSlots(t) /\ ~(swiotlb_lockless_mode /\
                                  loc[t].aindex # loc[t].ncpu)
                => ~InCritical(u, loc[t].aindex)
          /\ Reclaim(t) => ~InCritical(u, loc[t].i)
          /\ FindSearch(t) /\ pc'[t] = "claiming"
                => ~InCritical(u, loc[t].i)]_vars

\* the units of area a whose bitmap bit is set, and those whose bit is clear
FreeUnits(a) == {i \in AreaRange(a) : test_bit(mem, i)}
BusyUnits(a) == {i \in AreaRange(a) \cap DOMAIN mem.bitmap : ~test_bit(mem, i)}

\* C33: bookkeeping consistency.  Whenever no context is inside a critical
\* section of area a, a's free_slots holds, without duplicates, exactly the
\* units of a's index range whose bit is 1, and a.used is the number of
\* units of a's range whose bit is 0; hence mem_used is the number of
\* cleared bits of the pool.
C33_BookkeepingConsistent ==
    /\ \A a \in DOMAIN mem.areas :
          LockFree(a) /\ (\A u \in Tasks : ~InCritical(u, a)) =>
              LET list == mem.areas[a].free_slots IN
              /\ \A j, k \in DOMAIN list : j # k => list[j] # list[k]
              /\ {list[k] : k \in DOMAIN list} = FreeUnits(a)
              /\ mem.areas[a].used = Cardinality(BusyUnits(a))
    /\ (\A a \in DOMAIN mem.areas :
            LockFree(a) /\ \A u \in Tasks : ~InCritical(u, a)) =>
          mem_used(mem) =
              Cardinality({i \in DOMAIN mem.bitmap : ~test_bit(mem, i)})

\* C34: map always copies in.  A successful swiotlb_tbl_map_single, which
\* takes no account of the DMA direction, copies mapping_size bytes from
\* the original buffer to the bounce buffer: its swiotlb_bounce copies
\* every byte orig_addr + k to the pool byte tlb_addr + k, k < mapping_size,
\* and changes only the pool, so that right after the map the first
\* mapping_size bytes of the bounce buffer equal the original buffer.
C34_MapCopiesIn ==
    [][\A t \in Tasks : MapFill(t) =>
          LET l == loc[t]
              tlb_addr == slot_addr(mem.start, l.index) + l.offset
          IN  /\ orig_buf' = orig_buf
              /\ BouncePairs(mem', dev, max_low_pfn, tlb_addr,
                             l.mapping_size) =
                     {<<l.orig_addr + k, tlb_addr - mem.start + k>> :
                          k \in 0..(l.mapping_size - 1)}
              /\ \A k \in 0..(l.mapping_size - 1) :
                     tlb_buf'[tlb_addr - mem.start + k] =
                         orig_buf[l.orig_addr + k]]_vars

\* the unmap copies back: DMA_ATTR_SKIP_CPU_SYNC is not set and the device
\* may have written
CopiesBack(dir, skip) ==
    ~skip /\ dir \in {DMA_FROM_DEVICE, DMA_BIDIRECTIONAL}

\* C35: unmap always releases.  swiotlb_tbl_unmap_single hands the units
\* of the allocation to swiotlb_release_slots for every direction and with
\* or without DMA_ATTR_SKIP_CPU_SYNC; it copies the bounce buffer back to
\* the original buffer exactly when DMA_ATTR_SKIP_CPU_SYNC is not set and
\* the direction is DMA_FROM_DEVICE or DMA_BIDIRECTIONAL, while the units
\* are still allocated; the release then copies nothing and leaves the
\* units free, or queued for their owner in lockless mode.
C35_UnmapReleases ==
    [][\A t \in Tasks :
        /\ \A c \in Cpus, a \in live, dir \in CopyDirs, skip \in BOOLEAN :
               swiotlb_tbl_unmap_single(t, c, a, dir, skip) =>
                   /\ pc'[t] = "rel_lock"
                   /\ loc'[t].index = a.index /\ loc'[t].nslots = a.nslots
                   /\ mem' = mem
                   /\ \A i \in Units(a) : ~test_bit(mem, i)
                   /\ tlb_buf' = tlb_buf
                   /\ IF CopiesBack(dir, skip) THEN Synced(a)'
                      ELSE orig_buf' = orig_buf
        /\ ReleaseSlots(t) /\ loc[t].op = "unmap" =>
               /\ UNCHANGED bufs
               /\ \A i \in Units(loc[t]) : test_bit(mem', i) \/ i \in Queued'
       ]_vars

\* an unmap of a two-slot mapping has copied the device's data to the
\* original buffer and is at the release: the units are still allocated
C35_Witness ==
    \E t \in Tasks :
        /\ pc[t] = "rel_lock" /\ loc[t].op = "unmap"
        /\ loc[t].nslots > 1
        /\ \A i \in Units(loc[t]) : ~test_bit(mem, i)
        /\ \E x \in DOMAIN orig_buf :
               orig_buf[x] = DevData(loc[t].tlb_addr - mem.start)

\* the release at the end of a swiotlb_map whose bounce address the device
\* cannot reach
FailedMapRelease(t) == ReleaseSlots(t) /\ loc[t].before # <<>>

\* C36: a failed map leaks nothing.  When swiotlb_map has obtained a bounce
\* buffer that dma_capable rejects, it releases the units it claimed, and
\* after the call the bitmap, the slot metadata and the used counts are
\* what they were before the call and every free_slots list holds the same
\* set of units.
C36_FailedMapLeaksNothing ==
    [][\A t \in Tasks :
          /\ \A c \in Cpus : swiotlb_map_dma_capable(t, c, FALSE) =>
                 /\ pc'[t] = "rel_lock"
                 /\ Units(loc'[t]) =
                        loc[t].index..(loc[t].index +
                                       nr_slots(loc[t].alloc_size) - 1)
          /\ FailedMapRelease(t) =>
                 /\ pc'[t] = "idle"
                 /\ Bookkeeping(mem') = loc[t].before]_vars

\* C37: every request within the advertised maximum is satisfiable.  On a
\* freshly initialised pool whose areas each hold at least one segment of
\* IO_TLB_SEGSIZE units, the search of a swiotlb_tbl_map_single succeeds for
\* every size from 1 to swiotlb_max_mapping_size(dev), for every original
\* address and every min-align mask of a device without a segment boundary.
C37_MaxMappingSatisfiable ==
    [][\A t \in Tasks :
          /\ FindSearch(t) /\ loc[t].op = "map"
          /\ AllFree /\ live = {}
          /\ mem.area_nslabs >= IO_TLB_SEGSIZE
          /\ dma_get_seg_boundary(dev) = ULONG_MAX
          /\ loc[t].mapping_size >= 1
          /\ loc[t].mapping_size <= swiotlb_max_mapping_size(dev)
          => pc'[t] = "claiming"]_vars

\* C38: the lockless ownership decision is stable.  In lockless mode a
\* swiotlb_release_slots that takes the owner path, aindex being the CPU
\* number it sampled, runs that path on the CPU that owns the area, and no
\* other context is between search and claim on the area meanwhile.
C38_OwnerPathOnOwner ==
    [][\A t \in Tasks :
          ReleaseSlots(t) /\ swiotlb_lockless_mode /\
          loc[t].aindex = loc[t].ncpu =>
              /\ BitAnd(cpu[t], mem.nareas - 1) = loc[t].aindex
              /\ \A u \in Tasks \ {t} : ~InCritical(u, loc[t].aindex)]_vars

\* the pool as swiotlb_init_io_tlb_mem left it
FreshPool ==
    swiotlb_init_io_tlb_mem(mem.start, mem.nslabs, mem.for_alloc, mem.nareas)

\* every allocation has been released: none is live and no call but t's is
\* under way
AllReleased(t) == live = {} /\ \A u \in Tasks \ {t} : pc[u] = "idle"

\* C39: no units are lost in lockless mode.  Once every allocation has been
\* released, by the owner or by another CPU, the owner's next allocate
\* succeeds for every request its freshly initialised area would satisfy:
\* if its first search fails, the reclamation brings back the queued units
\* and the second search, with nothing queued since, finds a run.
C39_NoUnitsLost ==
    [][\A t \in Tasks :
          /\ FindSearch(t) /\ swiotlb_lockless_mode /\ loc[t].second
          /\ AllReleased(t)
          /\ mem.areas[loc[t].i].free_slots_from_other_cpu = <<>>
          /\ SearchArea(FreshPool, dev, loc[t].i, loc[t].orig_addr,
                        loc[t].alloc_size, loc[t].alloc_align_mask) >= 0
          => pc'[t] = "claiming"]_vars

(***************************************************************************)
(* SpecRelease: one caller maps and unmaps buffers of one or two slots on  *)
(* a pool brought up by swiotlb_init_late, in locked or in lockless mode,  *)
(* for a device with or without min_align_mask, and calls                  *)
(* swiotlb_release_slots again on the bounce address of a mapping that has *)
(* been released already.                                                  *)
(***************************************************************************)
ReleasePoolBytes == {2 * IO_TLB_SEGSIZE * IO_TLB_SIZE}
ReleaseOrigAddrs == {PAGE_SIZE, PAGE_SIZE + 1}
ReleaseMapSizes == {IO_TLB_SIZE - 1, IO_TLB_SIZE + 1}

\* the bounce address x is the one swiotlb_tbl_map_single returns for the
\* slot it lies in, and that slot is free again: its bit is set and no live
\* allocation holds it
ReleasedAt(x) ==
    LET offset == swiotlb_align_offset(dev, x)
        index == (x - offset - mem.start) \div IO_TLB_SIZE
    IN  /\ (x - offset - mem.start) % IO_TLB_SIZE = 0
        /\ test_bit(mem, index)
        /\ \A a \in live : index \notin Units(a)

InitRelease ==
    /\ \E size \in ReleasePoolBytes, na \in {1, NCpus} :
             mem = swiotlb_init_late(PoolStart, size, na)
    /\ swiotlb_lockless_mode \in BOOLEAN
    /\ \E m \in SyncMinAlignMasks :
             dev = [min_align_mask |-> m, seg_boundary |-> ULONG_MAX]
    /\ max_low_pfn = ULONG_MAX
    /\ orig_buf = [x \in 0..(OrigTop - 1) |-> FirstData(x)]
    /\ tlb_buf = ZeroBuf(mem.nslabs * IO_TLB_SIZE)
    /\ InitTasks

NextRelease ==
    \E t \in {1} :
        \/ \E c \in Cpus, o \in ReleaseOrigAddrs, s \in ReleaseMapSizes :
               Fresh /\ swiotlb_tbl_map_single(t, c, o, s, s, 0)
        \/ \E c \in Cpus, a \in live :
               swiotlb_tbl_unmap_single(t, c, a, DMA_TO_DEVICE, FALSE)
        \/ \E c \in Cpus, x \in mem.start..(mem.end - 1) :
               ReleasedAt(x) /\ swiotlb_release_slots(t, c, x)
        \/ FindSearch(t)
        \/ FindClaim(t)
        \/ MapFill(t)
        \/ ReleaseSlots(t)

SpecRelease == InitRelease /\ [][NextRelease]_vars

\* C40: a double release with alignment offset 0 is idempotent.  When
\* swiotlb_release_slots is called again on the bounce address of an
\* allocation that has been released already (its slot is free again) and
\* swiotlb_align_offset of the address is 0, the call computes a run of 0
\* units, and its step under swiotlb_lock, in locked mode or on the owner's
\* path in lockless mode, leaves the bitmap, the slot metadata, the free
\* lists and the used counts as they were.
C40_DoubleReleaseIdempotent ==
    [][\A t \in Tasks :
          /\ \A c \in Cpus, x \in mem.start..(mem.end - 1) :
                 ReleasedAt(x) /\ swiotlb_release_slots(t, c, x) /\
                 swiotlb_align_offset(dev, x) = 0 =>
                     loc'[t].nslots = 0 /\ pc'[t] = "rel_lock"
          /\ ReleaseSlots(t) /\ loc[t].op = "release" /\ loc[t].offset = 0 /\
             (~swiotlb_lockless_mode \/ loc[t].aindex = loc[t].ncpu) =>
                 /\ loc[t].nslots = 0
                 /\ mem'.bitmap = mem.bitmap
                 /\ mem'.slots = mem.slots
                 /\ mem'.areas = mem.areas]_vars

\* the second release of a slot that a mapping was bounced through, for a
\* device with a min_align_mask, is at swiotlb_lock with a run of 0 units
C40_Witness ==
    \E t \in Tasks :
        /\ pc[t] = "rel_lock" /\ loc[t].op = "release"
        /\ loc[t].offset = 0 /\ loc[t].nslots = 0
        /\ dev.min_align_mask # 0
        /\ live = {}
        /\ swiotlb_lockless_mode
        /\ tlb_buf[loc[t].tlb_addr - mem.start] # 0
====
